---- MODULE Spec2Model ----
(***************************************************************************)
(* Model of the percolator-sdk binary state codec (src/solana/slab.ts),    *)
(* the slab tier table (src/solana/discovery.ts), the i128 encoder         *)
(* (abi/encode) and the DEX price math (src/solana/dex-oracle.ts).         *)
(*                                                                         *)
(* bigint values are little-endian sequences of base-256 digits, because   *)
(* TLC integers are 32 bits wide.  A byte buffer is a length               *)
(* plus the finite map of its non-zero bytes (offsets are 0-based).        *)
(***************************************************************************)
EXTENDS Integers, Sequences, FiniteSets, TLC

VARIABLES data, call

vars == <<data, call>>

(***************************************************************************)
(* bigint arithmetic (JavaScript BigInt, non-negative part)                *)
(***************************************************************************)
Digit(a, i) == IF i >= 1 /\ i <= Len(a) THEN a[i] ELSE 0

Max2(x, y) == IF x >= y THEN x ELSE y

\* largest element of a finite set of naturals, or 0 for the empty set
MaxOf(S) == IF S = {} THEN 0 ELSE CHOOSE i \in S : \A j \in S : j <= i

\* index of the most significant non-zero digit, or 0
TopDigit(a) == MaxOf({i \in 1..Len(a) : a[i] # 0})

\* canonical form: no leading (most significant) zero digits
Norm(a) == SubSeq(a, 1, TopDigit(a))

Zeros(n) == [i \in 1..n |-> 0]

\* digits lo..hi of a + b given the carry c into digit lo, and the carry out
RECURSIVE AddRange(_, _, _, _, _)
AddRange(a, b, lo, hi, c) ==
  IF lo = hi
  THEN LET s == Digit(a, lo) + Digit(b, lo) + c
       IN  [s |-> <<s % 256>>, c |-> s \div 256]
  ELSE LET mid == (lo + hi) \div 2
           L == AddRange(a, b, lo, mid, c)
           H == AddRange(a, b, mid + 1, hi, L.c)
       IN  [s |-> L.s \o H.s, c |-> H.c]

BAdd(a, b) == Norm(AddRange(a, b, 1, Max2(Len(a), Len(b)) + 1, 0).s)

\* digits lo..hi of a - b given the borrow c into digit lo, and the borrow out
RECURSIVE SubRange(_, _, _, _, _)
SubRange(a, b, lo, hi, c) ==
  IF lo = hi
  THEN LET s == Digit(a, lo) - Digit(b, lo) - c
       IN  IF s < 0 THEN [s |-> <<s + 256>>, c |-> 1] ELSE [s |-> <<s>>, c |-> 0]
  ELSE LET mid == (lo + hi) \div 2
           L == SubRange(a, b, lo, mid, c)
           H == SubRange(a, b, mid + 1, hi, L.c)
       IN  [s |-> L.s \o H.s, c |-> H.c]

\* a - b for a >= b
BSub(a, b) == Norm(SubRange(a, b, 1, Max2(Len(a), Len(b)) + 1, 0).s)

\* -1, 0, 1 as a < b, a = b, a > b
BCmp(a, b) ==
  LET x == Norm(a)
      y == Norm(b)
      t == MaxOf({i \in 1..Len(x) : x[i] # Digit(y, i)})
  IN  IF Len(x) < Len(y) THEN -1
      ELSE IF Len(x) > Len(y) THEN 1
      ELSE IF t = 0 THEN 0
      ELSE IF x[t] < y[t] THEN -1
      ELSE 1

BGe(a, b) == BCmp(a, b) >= 0

\* digits lo..hi of a * m given the carry c into digit lo, and the carry out
RECURSIVE MulSmallRange(_, _, _, _, _)
MulSmallRange(a, m, lo, hi, c) ==
  IF lo = hi
  THEN LET s == Digit(a, lo) * m + c
       IN  [s |-> <<s % 256>>, c |-> s \div 256]
  ELSE LET mid == (lo + hi) \div 2
           L == MulSmallRange(a, m, lo, mid, c)
           H == MulSmallRange(a, m, mid + 1, hi, L.c)
       IN  [s |-> L.s \o H.s, c |-> H.c]

\* a * m for a small multiplier 0 <= m < 2^22 (the carry fits three digits)
BMulSmall(a, m) == Norm(MulSmallRange(a, m, 1, Len(a) + 3, 0).s)

\* a << (8 * n)
BShlBytes(a, n) == IF Norm(a) = <<>> THEN <<>> ELSE Zeros(n) \o Norm(a)

\* a >> (8 * n)
BShrBytes(a, n) == IF Len(a) <= n THEN <<>> ELSE Norm(SubSeq(a, n + 1, Len(a)))

\* a * (the number made of the digits lo..hi of b, in place)
RECURSIVE MulRange(_, _, _, _)
MulRange(a, b, lo, hi) ==
  IF lo = hi THEN BShlBytes(BMulSmall(a, b[lo]), lo - 1)
  ELSE LET mid == (lo + hi) \div 2
       IN  BAdd(MulRange(a, b, lo, mid), MulRange(a, b, mid + 1, hi))

BMul(a, b) ==
  LET x == Norm(a)
      y == Norm(b)
  IN  IF x = <<>> \/ y = <<>> THEN <<>> ELSE MulRange(x, y, 1, Len(y))

\* bit k (0-based) of a
BBit(a, k) == (Digit(a, (k \div 8) + 1) \div (2 ^ (k % 8))) % 2

\* largest q in lo..hi with b * q <= r
RECURSIVE QDigit(_, _, _, _)
QDigit(r, b, lo, hi) ==
  IF lo = hi THEN lo
  ELSE LET mid == (lo + hi + 1) \div 2
       IN  IF BGe(r, BMulSmall(b, mid)) THEN QDigit(r, b, mid, hi)
           ELSE QDigit(r, b, lo, mid - 1)

\* one step of long division: st holds the quotient digits found so far and
\* the running remainder (below b), d is the next lower digit of the dividend
DivStep(st, d, b) ==
  LET r2 == Norm(<<d>> \o st.r)
  IN  IF Len(r2) < Len(b) THEN [q |-> <<0>> \o st.q, r |-> r2]
      ELSE LET qd == QDigit(r2, b, 0, 255)
           IN  [q |-> <<qd>> \o st.q, r |-> BSub(r2, BMulSmall(b, qd))]

\* long division over the digits hi down to lo of a, continuing from st
RECURSIVE DivRange(_, _, _, _, _)
DivRange(a, b, lo, hi, st) ==
  IF st.r = <<>> /\ \A i \in lo..hi : a[i] = 0
  THEN [q |-> Zeros(hi - lo + 1) \o st.q, r |-> <<>>]
  ELSE IF lo = hi THEN DivStep(st, a[lo], b)
  ELSE LET mid == (lo + hi) \div 2
       IN  DivRange(a, b, lo, mid, DivRange(a, b, mid + 1, hi, st))

\* floor(a / b) and a mod b for b > 0
BDivMod(a, b) ==
  LET x == Norm(a)
      d == DivRange(x, Norm(b), 1, Len(x), [q |-> <<>>, r |-> <<>>])
  IN  IF x = <<>> THEN [q |-> <<>>, r |-> <<>>] ELSE [q |-> Norm(d.q), r |-> d.r]

BDiv(a, b) == BDivMod(a, b).q

\* bitwise OR of two bytes
ByteOr(x, y) ==
  LET bit(k) == IF (x \div (2 ^ k)) % 2 = 1 \/ (y \div (2 ^ k)) % 2 = 1 THEN 2 ^ k ELSE 0
  IN  bit(0) + bit(1) + bit(2) + bit(3) + bit(4) + bit(5) + bit(6) + bit(7)

BOr(a, b) == Norm([i \in 1..Max2(Len(a), Len(b)) |-> ByteOr(Digit(a, i), Digit(b, i))])

\* a small non-negative number as a bigint
RECURSIVE BFromInt(_)
BFromInt(n) == IF n = 0 THEN <<>> ELSE <<n % 256>> \o BFromInt(n \div 256)

\* a bigint literal from its hexadecimal digits, most significant first
\* (an even number of them): digit pair k from the right is byte k
BFromHex(h) ==
  Norm([k \in 1..(Len(h) \div 2) |-> 16 * h[Len(h) - 2 * k + 1] + h[Len(h) - 2 * k + 2]])

\* 10n ** BigInt(k), by repeated squaring
RECURSIVE Pow10(_)
Pow10(k) ==
  IF k = 0 THEN <<1>>
  ELSE IF k % 2 = 1 THEN BMulSmall(Pow10(k - 1), 10)
  ELSE LET h == Pow10(k \div 2) IN BMul(h, h)

\* 1n << BigInt(8 * n)
Pow256(n) == Zeros(n) \o <<1>>

\* signed bigint: sign and magnitude (zero is never negative)
Signed(neg, mag) == [neg |-> neg /\ Norm(mag) # <<>>, mag |-> Norm(mag)]

(***************************************************************************)
(* Byte buffers and the unchecked little-endian readers                    *)
(***************************************************************************)
Buf(len, nz) == [len |-> len, nz |-> nz]

ByteAt(d, off) == IF off \in DOMAIN d.nz THEN d.nz[off] ELSE 0

Bytes(d, off, n) == [i \in 1..n |-> ByteAt(d, off + i - 1)]

readU8(d, off) == ByteAt(d, off)

readU16LE(d, off) == ByteAt(d, off) + 256 * ByteAt(d, off + 1)

readU32LE(d, off) == Norm(Bytes(d, off, 4))

readU64LE(d, off) == Norm(Bytes(d, off, 8))

SIGN_BIT_64 == BShlBytes(<<128>>, 7)

readI64LE(d, off) ==
  LET u == readU64LE(d, off)
  IN  IF BGe(u, SIGN_BIT_64) THEN Signed(TRUE, BSub(Pow256(8), u)) ELSE Signed(FALSE, u)

readU128LE(d, off) ==
  LET lo == readU64LE(d, off)
      hi == readU64LE(d, off + 8)
  IN  BOr(BShlBytes(hi, 8), lo)

SIGN_BIT == BShlBytes(<<128>>, 15)

\* a reader that takes the sign from unsigned > SIGN_BIT instead of >=
readI128LEAboveSignBit(d, off) ==
  LET unsigned == BOr(BShlBytes(readU64LE(d, off + 8), 8), readU64LE(d, off))
  IN  IF BCmp(unsigned, SIGN_BIT) > 0 THEN Signed(TRUE, BSub(Pow256(16), unsigned))
      ELSE Signed(FALSE, unsigned)

readI128LE(d, off) ==
  LET lo == readU64LE(d, off)
      hi == readU64LE(d, off + 8)
      unsigned == BOr(BShlBytes(hi, 8), lo)
  IN  IF BGe(unsigned, SIGN_BIT) THEN Signed(TRUE, BSub(Pow256(16), unsigned))
      ELSE Signed(FALSE, unsigned)

(***************************************************************************)
(* Layout constants (slab.ts)                                              *)
(***************************************************************************)
MAGIC == BFromHex(<<5, 0, 4, 5, 5, 2, 4, 3, 4, 15, 4, 12, 4, 1, 5, 4>>)
HEADER_LEN == 104
CONFIG_OFFSET == HEADER_LEN
CONFIG_LEN == 496
RESERVED_OFF == 80
FLAG_RESOLVED == 1
ENGINE_OFF == 600
ENGINE_VAULT_OFF == 0
ENGINE_INSURANCE_OFF == 16
ENGINE_PARAMS_OFF == 48
ENGINE_CURRENT_SLOT_OFF == 336
ENGINE_FUNDING_INDEX_OFF == 344
ENGINE_LAST_FUNDING_SLOT_OFF == 360
ENGINE_FUNDING_RATE_BPS_OFF == 368
ENGINE_LAST_CRANK_SLOT_OFF == 400
ENGINE_MAX_CRANK_STALENESS_OFF == 408
ENGINE_TOTAL_OI_OFF == 416
ENGINE_C_TOT_OFF == 432
ENGINE_PNL_POS_TOT_OFF == 448
ENGINE_LIQ_CURSOR_OFF == 464
ENGINE_GC_CURSOR_OFF == 466
ENGINE_LAST_SWEEP_START_OFF == 472
ENGINE_LAST_SWEEP_COMPLETE_OFF == 480
ENGINE_CRANK_CURSOR_OFF == 488
ENGINE_SWEEP_START_IDX_OFF == 490
ENGINE_LIFETIME_LIQUIDATIONS_OFF == 496
ENGINE_LIFETIME_FORCE_CLOSES_OFF == 504
ENGINE_NET_LP_POS_OFF == 512
ENGINE_LP_SUM_ABS_OFF == 528
ENGINE_LP_MAX_ABS_OFF == 544
ENGINE_LP_MAX_ABS_SWEEP_OFF == 560
ENGINE_BITMAP_OFF == 576
DEFAULT_MAX_ACCOUNTS == 4096
DEFAULT_BITMAP_WORDS == 64
ACCOUNT_SIZE == 248
ENGINE_ACCOUNTS_OFF == 9304

PARAMS_WARMUP_PERIOD_OFF == 0
PARAMS_MAINTENANCE_MARGIN_OFF == 8
PARAMS_INITIAL_MARGIN_OFF == 16
PARAMS_TRADING_FEE_OFF == 24
PARAMS_MAX_ACCOUNTS_OFF == 32
PARAMS_NEW_ACCOUNT_FEE_OFF == 40
PARAMS_RISK_THRESHOLD_OFF == 56
PARAMS_MAINTENANCE_FEE_OFF == 72
PARAMS_MAX_CRANK_STALENESS_OFF == 88
PARAMS_LIQUIDATION_FEE_BPS_OFF == 96
PARAMS_LIQUIDATION_FEE_CAP_OFF == 104
PARAMS_LIQUIDATION_BUFFER_OFF == 120
PARAMS_MIN_LIQUIDATION_OFF == 128

ACCT_ACCOUNT_ID_OFF == 0
ACCT_CAPITAL_OFF == 8
ACCT_KIND_OFF == 24
ACCT_PNL_OFF == 32
ACCT_RESERVED_PNL_OFF == 48
ACCT_WARMUP_STARTED_OFF == 56
ACCT_WARMUP_SLOPE_OFF == 64
ACCT_POSITION_SIZE_OFF == 80
ACCT_ENTRY_PRICE_OFF == 96
ACCT_FUNDING_INDEX_OFF == 104
ACCT_MATCHER_PROGRAM_OFF == 120
ACCT_MATCHER_CONTEXT_OFF == 152
ACCT_OWNER_OFF == 184
ACCT_FEE_CREDITS_OFF == 216
ACCT_LAST_FEE_SLOT_OFF == 232

(***************************************************************************)
(* LayoutResolver: slabLayout / detectLayout (slab.ts), and the tier table *)
(* and size formula of discovery.ts                                        *)
(***************************************************************************)
\* Math.ceil(x / n) for non-negative x
CeilDiv(x, n) == (x + n - 1) \div n

slabLayout(maxAccounts) ==
  LET bitmapWords == CeilDiv(maxAccounts, 64)
      bitmapBytes == bitmapWords * 8
      postBitmap == 18
      nextFreeBytes == maxAccounts * 2
      preAccountsLen == ENGINE_BITMAP_OFF + bitmapBytes + postBitmap + nextFreeBytes
      accountsOff == CeilDiv(preAccountsLen, 8) * 8
  IN  [isNull |-> FALSE, bitmapWords |-> bitmapWords, accountsOff |-> accountsOff,
       maxAccounts |-> maxAccounts]

NullLayout == [isNull |-> TRUE]

\* the capacities detectLayout tries, in order
DetectTiers == <<64, 256, 1024, 4096>>

RECURSIVE DetectRec(_, _)
DetectRec(dataLen, i) ==
  IF i > Len(DetectTiers) THEN NullLayout
  ELSE LET n == DetectTiers[i]
           layout == slabLayout(n)
           expectedLen == ENGINE_OFF + layout.accountsOff + n * ACCOUNT_SIZE
       IN  IF dataLen = expectedLen THEN layout ELSE DetectRec(dataLen, i + 1)

\* a resolver that tolerates trailing bytes: the first tier whose total
\* length fits in dataLen (what "exact" in detectLayout rules out)
detectLayoutAtLeast(dataLen) ==
  LET fits == {i \in 1..Len(DetectTiers) :
                 dataLen >= ENGINE_OFF + slabLayout(DetectTiers[i]).accountsOff
                              + DetectTiers[i] * ACCOUNT_SIZE}
  IN  IF fits = {} THEN NullLayout
      ELSE slabLayout(DetectTiers[CHOOSE i \in fits : \A j \in fits : i <= j])

detectLayout(dataLen) == DetectRec(dataLen, 1)

SLAB_TIERS ==
  [small  |-> [maxAccounts |-> 256,  dataSize |-> 65232],
   medium |-> [maxAccounts |-> 1024, dataSize |-> 257328],
   large  |-> [maxAccounts |-> 4096, dataSize |-> 1025712]]

\* the size formula with the engine at byte 456 (104-byte header plus a
\* 352-byte config) instead of 600
slabDataSizeEngineAt456(maxAccounts) ==
  LET bitmapBytes == CeilDiv(maxAccounts, 64) * 8
      preAccountsLen == 576 + bitmapBytes + 18 + maxAccounts * 2
  IN  456 + CeilDiv(preAccountsLen, 8) * 8 + maxAccounts * 248

slabDataSize(maxAccounts) ==
  LET ENGINE_OFF_LOCAL == 600
      ENGINE_FIXED == 576
      ACCOUNT_SIZE_LOCAL == 248
      bitmapBytes == CeilDiv(maxAccounts, 64) * 8
      postBitmap == 18
      nextFreeBytes == maxAccounts * 2
      preAccountsLen == ENGINE_FIXED + bitmapBytes + postBitmap + nextFreeBytes
      accountsOff == CeilDiv(preAccountsLen, 8) * 8
  IN  ENGINE_OFF_LOCAL + accountsOff + maxAccounts * ACCOUNT_SIZE_LOCAL

(***************************************************************************)
(* Decoder results.  status is "ok", the decoder's own error, or           *)
(* "oob_read" when a primitive reader was handed offset + width beyond the *)
(* end of the buffer (DataView throws its RangeError).  reads is the set   *)
(* of <<offset, width>> primitive reads the call issued.                   *)
(***************************************************************************)
Fail(status) == [status |-> status, reads |-> {}]

Finish(d, reads, value) ==
  IF \E r \in reads : r[1] + r[2] > d.len
  THEN [status |-> "oob_read", reads |-> reads]
  ELSE [status |-> "ok", reads |-> reads, value |-> value]

Width(kind) ==
  CASE kind = "u8" -> 1
    [] kind = "u16" -> 2
    [] kind = "u32" -> 4
    [] kind \in {"u64", "i64"} -> 8
    [] kind \in {"u128", "i128"} -> 16
    [] kind = "pubkey" -> 32

\* the primitive reads one field costs: a 128-bit field is two 64-bit reads
FieldReads(off, kind) ==
  IF kind \in {"u128", "i128"} THEN {<<off, 8>>, <<off + 8, 8>>}
  ELSE {<<off, Width(kind)>>}

ReadKind(d, off, kind) ==
  CASE kind = "u8" -> readU8(d, off)
    [] kind = "u16" -> readU16LE(d, off)
    [] kind = "u32" -> readU32LE(d, off)
    [] kind = "u64" -> readU64LE(d, off)
    [] kind = "i64" -> readI64LE(d, off)
    [] kind = "u128" -> readU128LE(d, off)
    [] kind = "i128" -> readI128LE(d, off)
    [] kind = "pubkey" -> Bytes(d, off, 32)

Range(s) == {s[i] : i \in 1..Len(s)}

\* a table of <<name, offset, kind>> read relative to base
TableReads(tbl, base) == UNION {FieldReads(base + f[2], f[3]) : f \in Range(tbl)}

TableValue(d, tbl, base) ==
  [n \in {f[1] : f \in Range(tbl)} |->
     LET f == CHOOSE g \in Range(tbl) : g[1] = n
     IN  ReadKind(d, base + f[2], f[3])]

(***************************************************************************)
(* SlabDecoder (slab.ts)                                                   *)
(***************************************************************************)
\* a mask test that is true of any nonzero byte
ByteAndAnyBit(x, y) == IF x # 0 THEN y ELSE 0

\* x & y on bytes
ByteAnd(x, y) ==
  LET bit(k) == IF (x \div (2 ^ k)) % 2 = 1 /\ (y \div (2 ^ k)) % 2 = 1 THEN 2 ^ k ELSE 0
  IN  bit(0) + bit(1) + bit(2) + bit(3) + bit(4) + bit(5) + bit(6) + bit(7)

HeaderReads ==
  {<<0, 8>>, <<8, 4>>, <<12, 1>>, <<13, 1>>, <<16, 32>>,
   <<RESERVED_OFF, 8>>, <<RESERVED_OFF + 8, 8>>}

\* a header decoder that examines the magic before the length
parseHeaderMagicFirst(d) ==
  IF readU64LE(d, 0) # MAGIC THEN [status |-> "bad_magic", reads |-> {<<0, 8>>}]
  ELSE IF d.len < HEADER_LEN THEN Fail("too_short")
  ELSE Finish(d, HeaderReads, [magic |-> MAGIC])

parseHeader(d) ==
  IF d.len < HEADER_LEN THEN Fail("too_short")
  ELSE LET magic == readU64LE(d, 0)
       IN  IF magic # MAGIC THEN [status |-> "bad_magic", reads |-> {<<0, 8>>}]
           ELSE LET flags == readU8(d, 13)
                IN  Finish(d, HeaderReads,
                      [magic |-> magic,
                       version |-> readU32LE(d, 8),
                       bump |-> readU8(d, 12),
                       flags |-> flags,
                       resolved |-> ByteAnd(flags, FLAG_RESOLVED) # 0,
                       paused |-> ByteAnd(flags, 2) # 0,
                       admin |-> Bytes(d, 16, 32),
                       nonce |-> readU64LE(d, RESERVED_OFF),
                       lastThrUpdateSlot |-> readU64LE(d, RESERVED_OFF + 8)])

\* the fields parseConfig reads, in the order it reads them; every read
\* advances the running offset by the field's width
ConfigFields ==
  << <<"collateralMint", "pubkey">>, <<"vaultPubkey", "pubkey">>,
     <<"indexFeedId", "pubkey">>, <<"maxStalenessSlots", "u64">>,
     <<"confFilterBps", "u16">>, <<"vaultAuthorityBump", "u8">>,
     <<"invert", "u8">>, <<"unitScale", "u32">>,
     <<"fundingHorizonSlots", "u64">>, <<"fundingKBps", "u64">>,
     <<"fundingInvScaleNotionalE6", "u128">>, <<"fundingMaxPremiumBps", "i64">>,
     <<"fundingMaxBpsPerSlot", "i64">>, <<"threshFloor", "u128">>,
     <<"threshRiskBps", "u64">>, <<"threshUpdateIntervalSlots", "u64">>,
     <<"threshStepBps", "u64">>, <<"threshAlphaBps", "u64">>,
     <<"threshMin", "u128">>, <<"threshMax", "u128">>,
     <<"threshMinStep", "u128">>, <<"oracleAuthority", "pubkey">>,
     <<"authorityPriceE6", "u64">>, <<"authorityTimestamp", "i64">>,
     <<"oraclePriceCapE2bps", "u64">>, <<"lastEffectivePriceE6", "u64">> >>

\* the running offset `off` when field i is read
RECURSIVE ConfigOff(_)
ConfigOff(i) ==
  IF i = 1 THEN CONFIG_OFFSET ELSE ConfigOff(i - 1) + Width(ConfigFields[i - 1][2])

ConfigTable == [i \in 1..Len(ConfigFields) |->
                  <<ConfigFields[i][1], ConfigOff(i), ConfigFields[i][2]>>]

parseConfig(d) ==
  LET minLen == CONFIG_OFFSET + CONFIG_LEN
  IN  IF d.len < minLen THEN Fail("too_short")
      ELSE Finish(d, TableReads(ConfigTable, 0), TableValue(d, ConfigTable, 0))

readNonce(d) ==
  IF d.len < RESERVED_OFF + 8 THEN Fail("too_short")
  ELSE Finish(d, {<<RESERVED_OFF, 8>>}, readU64LE(d, RESERVED_OFF))

readLastThrUpdateSlot(d) ==
  IF d.len < RESERVED_OFF + 16 THEN Fail("too_short")
  ELSE Finish(d, {<<RESERVED_OFF + 8, 8>>}, readU64LE(d, RESERVED_OFF + 8))

ParamsTable ==
  << <<"warmupPeriodSlots", PARAMS_WARMUP_PERIOD_OFF, "u64">>,
     <<"maintenanceMarginBps", PARAMS_MAINTENANCE_MARGIN_OFF, "u64">>,
     <<"initialMarginBps", PARAMS_INITIAL_MARGIN_OFF, "u64">>,
     <<"tradingFeeBps", PARAMS_TRADING_FEE_OFF, "u64">>,
     <<"maxAccounts", PARAMS_MAX_ACCOUNTS_OFF, "u64">>,
     <<"newAccountFee", PARAMS_NEW_ACCOUNT_FEE_OFF, "u128">>,
     <<"riskReductionThreshold", PARAMS_RISK_THRESHOLD_OFF, "u128">>,
     <<"maintenanceFeePerSlot", PARAMS_MAINTENANCE_FEE_OFF, "u128">>,
     <<"maxCrankStalenessSlots", PARAMS_MAX_CRANK_STALENESS_OFF, "u64">>,
     <<"liquidationFeeBps", PARAMS_LIQUIDATION_FEE_BPS_OFF, "u64">>,
     <<"liquidationFeeCap", PARAMS_LIQUIDATION_FEE_CAP_OFF, "u128">>,
     <<"liquidationBufferBps", PARAMS_LIQUIDATION_BUFFER_OFF, "u64">>,
     <<"minLiquidationAbs", PARAMS_MIN_LIQUIDATION_OFF, "u128">> >>

parseParams(d) ==
  LET base == ENGINE_OFF + ENGINE_PARAMS_OFF
  IN  IF d.len < base + 144 THEN Fail("too_short")
      ELSE Finish(d, TableReads(ParamsTable, base), TableValue(d, ParamsTable, base))

EngineTable ==
  << <<"vault", ENGINE_VAULT_OFF, "u128">>,
     <<"insuranceFund.balance", ENGINE_INSURANCE_OFF, "u128">>,
     <<"insuranceFund.feeRevenue", ENGINE_INSURANCE_OFF + 16, "u128">>,
     <<"currentSlot", ENGINE_CURRENT_SLOT_OFF, "u64">>,
     <<"fundingIndexQpbE6", ENGINE_FUNDING_INDEX_OFF, "i128">>,
     <<"lastFundingSlot", ENGINE_LAST_FUNDING_SLOT_OFF, "u64">>,
     <<"fundingRateBpsPerSlotLast", ENGINE_FUNDING_RATE_BPS_OFF, "i64">>,
     <<"lastCrankSlot", ENGINE_LAST_CRANK_SLOT_OFF, "u64">>,
     <<"maxCrankStalenessSlots", ENGINE_MAX_CRANK_STALENESS_OFF, "u64">>,
     <<"totalOpenInterest", ENGINE_TOTAL_OI_OFF, "u128">>,
     <<"cTot", ENGINE_C_TOT_OFF, "u128">>,
     <<"pnlPosTot", ENGINE_PNL_POS_TOT_OFF, "u128">>,
     <<"liqCursor", ENGINE_LIQ_CURSOR_OFF, "u16">>,
     <<"gcCursor", ENGINE_GC_CURSOR_OFF, "u16">>,
     <<"lastSweepStartSlot", ENGINE_LAST_SWEEP_START_OFF, "u64">>,
     <<"lastSweepCompleteSlot", ENGINE_LAST_SWEEP_COMPLETE_OFF, "u64">>,
     <<"crankCursor", ENGINE_CRANK_CURSOR_OFF, "u16">>,
     <<"sweepStartIdx", ENGINE_SWEEP_START_IDX_OFF, "u16">>,
     <<"lifetimeLiquidations", ENGINE_LIFETIME_LIQUIDATIONS_OFF, "u64">>,
     <<"lifetimeForceCloses", ENGINE_LIFETIME_FORCE_CLOSES_OFF, "u64">>,
     <<"netLpPos", ENGINE_NET_LP_POS_OFF, "i128">>,
     <<"lpSumAbs", ENGINE_LP_SUM_ABS_OFF, "u128">>,
     <<"lpMaxAbs", ENGINE_LP_MAX_ABS_OFF, "u128">>,
     <<"lpMaxAbsSweep", ENGINE_LP_MAX_ABS_SWEEP_OFF, "u128">> >>

parseEngine(d) ==
  LET base == ENGINE_OFF
      layout == detectLayout(d.len)
      minLen == IF ~layout.isNull THEN layout.accountsOff ELSE ENGINE_ACCOUNTS_OFF
      bw == IF ~layout.isNull THEN layout.bitmapWords ELSE DEFAULT_BITMAP_WORDS
      numUsedOff == ENGINE_BITMAP_OFF + bw * 8
      tbl == EngineTable \o
             << <<"numUsedAccounts", numUsedOff, "u16">>,
                <<"nextAccountId", CeilDiv(numUsedOff + 2, 8) * 8, "u64">> >>
  IN  IF d.len < base + minLen THEN Fail("too_short")
      ELSE Finish(d, TableReads(tbl, base), TableValue(d, tbl, base))

(***************************************************************************)
(* SparseSlotIndex and per-slot decoding (slab.ts)                         *)
(***************************************************************************)
\* a JavaScript number that is an integer or a half: num / den, den in {1, 2}
Num(n, dn) == [num |-> n, den |-> dn]
IsInteger(x) == x.num % x.den = 0
IntOf(x) == x.num \div x.den

\* the elements of a finite set of naturals in ascending order
Ascending(S) ==
  [k \in 1..Cardinality(S) |-> CHOOSE b \in S : Cardinality({c \in S : c < b}) = k - 1]

\* the inner loop over bit = 0..63 of one non-zero bitmap word: the indices
\* word * 64 + bit of the set bits, pushed in ascending order
WordBits(bits, word) ==
  Ascending({word * 64 + bit : bit \in {b \in 0..63 : BBit(bits, b) = 1}})

\* the outer loop over the words lo..hi of the bitmap
RECURSIVE UsedRange(_, _, _, _)
UsedRange(d, base, lo, hi) ==
  IF lo = hi
  THEN LET bits == readU64LE(d, base + lo * 8)
       IN  IF bits = <<>> THEN <<>> ELSE WordBits(bits, lo)
  ELSE LET mid == (lo + hi) \div 2
       IN  UsedRange(d, base, lo, mid) \o UsedRange(d, base, mid + 1, hi)

\* a scan whose inner loop stops before bit 63
parseUsedIndicesBelowBit63(d) ==
  LET layout == detectLayout(d.len)
      bitmapWords == IF ~layout.isNull THEN layout.bitmapWords ELSE DEFAULT_BITMAP_WORDS
      base == ENGINE_OFF + ENGINE_BITMAP_OFF
      used == UsedRange(d, base, 0, bitmapWords - 1)
  IN  IF d.len < base + bitmapWords * 8 THEN Fail("too_short")
      ELSE Finish(d, {<<base + word * 8, 8>> : word \in 0..(bitmapWords - 1)},
                  SelectSeq(used, LAMBDA i : i % 64 # 63))

parseUsedIndices(d) ==
  LET layout == detectLayout(d.len)
      bitmapWords == IF ~layout.isNull THEN layout.bitmapWords ELSE DEFAULT_BITMAP_WORDS
      base == ENGINE_OFF + ENGINE_BITMAP_OFF
  IN  IF d.len < base + bitmapWords * 8 THEN Fail("too_short")
      ELSE Finish(d, {<<base + word * 8, 8>> : word \in 0..(bitmapWords - 1)},
                  UsedRange(d, base, 0, bitmapWords - 1))

\* a point query whose range test lets idx = capacity through
isAccountUsedInclusive(d, idx) ==
  LET layout == detectLayout(d.len)
      maxAcc == IF ~layout.isNull THEN layout.maxAccounts ELSE DEFAULT_MAX_ACCOUNTS
      base == ENGINE_OFF + ENGINE_BITMAP_OFF
      word == IntOf(idx) \div 64
  IN  IF ~IsInteger(idx) \/ idx.num < 0 \/ idx.num > maxAcc * idx.den
      THEN [status |-> "ok", reads |-> {}, value |-> FALSE]
      ELSE Finish(d, {<<base + word * 8, 8>>},
                  BBit(readU64LE(d, base + word * 8), IntOf(idx) % 64) # 0)

isAccountUsed(d, idx) ==
  LET layout == detectLayout(d.len)
      maxAcc == IF ~layout.isNull THEN layout.maxAccounts ELSE DEFAULT_MAX_ACCOUNTS
  IN  IF ~IsInteger(idx) \/ idx.num < 0 \/ idx.num >= maxAcc * idx.den
      THEN [status |-> "ok", reads |-> {}, value |-> FALSE]
      ELSE LET base == ENGINE_OFF + ENGINE_BITMAP_OFF
               word == IntOf(idx) \div 64
               bit == IntOf(idx) % 64
               bits == readU64LE(d, base + word * 8)
           IN  Finish(d, {<<base + word * 8, 8>>}, BBit(bits, bit) # 0)

maxAccountIndex(dataLen) ==
  LET layout == detectLayout(dataLen)
      accOff == IF ~layout.isNull THEN layout.accountsOff ELSE ENGINE_ACCOUNTS_OFF
      accountsEnd == dataLen - ENGINE_OFF - accOff
  IN  IF accountsEnd <= 0 THEN 0 ELSE accountsEnd \div ACCOUNT_SIZE

AccountTable ==
  << <<"kindByte", ACCT_KIND_OFF, "u8">>,
     <<"accountId", ACCT_ACCOUNT_ID_OFF, "u64">>,
     <<"capital", ACCT_CAPITAL_OFF, "u128">>,
     <<"pnl", ACCT_PNL_OFF, "i128">>,
     <<"reservedPnl", ACCT_RESERVED_PNL_OFF, "u64">>,
     <<"warmupStartedAtSlot", ACCT_WARMUP_STARTED_OFF, "u64">>,
     <<"warmupSlopePerStep", ACCT_WARMUP_SLOPE_OFF, "u128">>,
     <<"positionSize", ACCT_POSITION_SIZE_OFF, "i128">>,
     <<"entryPrice", ACCT_ENTRY_PRICE_OFF, "u64">>,
     <<"fundingIndex", ACCT_FUNDING_INDEX_OFF, "i128">>,
     <<"matcherProgram", ACCT_MATCHER_PROGRAM_OFF, "pubkey">>,
     <<"matcherContext", ACCT_MATCHER_CONTEXT_OFF, "pubkey">>,
     <<"owner", ACCT_OWNER_OFF, "pubkey">>,
     <<"feeCredits", ACCT_FEE_CREDITS_OFF, "i128">>,
     <<"lastFeeSlot", ACCT_LAST_FEE_SLOT_OFF, "u64">> >>

\* a slot decoder whose range test lets idx = maxIdx through
parseAccountInclusive(d, idx) ==
  LET maxIdx == maxAccountIndex(d.len)
      layout == detectLayout(d.len)
      accOff == IF ~layout.isNull THEN layout.accountsOff ELSE ENGINE_ACCOUNTS_OFF
      base == ENGINE_OFF + accOff + IntOf(idx) * ACCOUNT_SIZE
      raw == TableValue(d, AccountTable, base)
  IN  IF ~IsInteger(idx) \/ idx.num < 0 \/ idx.num > maxIdx * idx.den
      THEN Fail("out_of_range")
      ELSE IF d.len < base + ACCOUNT_SIZE THEN Fail("too_short")
      ELSE Finish(d, TableReads(AccountTable, base),
                  [kind |-> IF raw["kindByte"] = 1 THEN "LP" ELSE "User", fields |-> raw])

parseAccount(d, idx) ==
  LET maxIdx == maxAccountIndex(d.len)
  IN  IF ~IsInteger(idx) \/ idx.num < 0 \/ idx.num >= maxIdx * idx.den
      THEN Fail("out_of_range")
      ELSE LET layout == detectLayout(d.len)
               accOff == IF ~layout.isNull THEN layout.accountsOff ELSE ENGINE_ACCOUNTS_OFF
               base == ENGINE_OFF + accOff + IntOf(idx) * ACCOUNT_SIZE
           IN  IF d.len < base + ACCOUNT_SIZE THEN Fail("too_short")
               ELSE LET raw == TableValue(d, AccountTable, base)
                    IN  Finish(d, TableReads(AccountTable, base),
                          [kind |-> IF raw["kindByte"] = 1 THEN "LP" ELSE "User",
                           fields |-> raw])

\* a variant whose filter drops the last slot
parseAllAccountsBelowLastSlot(d) ==
  LET used == parseUsedIndices(d)
      validIndices == SelectSeq(used.value, LAMBDA i : i < maxAccountIndex(d.len) - 1)
  IN  IF used.status # "ok" THEN used
      ELSE [status |-> "ok", reads |-> used.reads,
            value |-> [k \in 1..Len(validIndices) |->
                         [idx |-> validIndices[k],
                          account |-> parseAccount(d, Num(validIndices[k], 1)).value]]]

parseAllAccounts(d) ==
  LET used == parseUsedIndices(d)
  IN  IF used.status # "ok" THEN used
      ELSE LET maxIdx == maxAccountIndex(d.len)
               validIndices == SelectSeq(used.value, LAMBDA i : i < maxIdx)
               accts == [k \in 1..Len(validIndices) |-> parseAccount(d, Num(validIndices[k], 1))]
           IN  IF \E k \in 1..Len(accts) : accts[k].status # "ok"
               THEN LET k == CHOOSE j \in 1..Len(accts) :
                               /\ accts[j].status # "ok"
                               /\ \A i \in 1..(j - 1) : accts[i].status = "ok"
                    IN  [status |-> accts[k].status,
                         reads |-> used.reads \cup UNION {accts[i].reads : i \in 1..k}]
               ELSE [status |-> "ok",
                     reads |-> used.reads \cup UNION {accts[i].reads : i \in 1..Len(accts)},
                     value |-> [k \in 1..Len(accts) |->
                                  [idx |-> validIndices[k], account |-> accts[k].value]]]

(***************************************************************************)
(* MarketDiscovery (discovery.ts): the light engine parser run on the      *)
(* slice that discovery downloads                                          *)
(***************************************************************************)
HEADER_SLICE_LENGTH == 1600

\* ENGINE_OFF of discovery.ts
DISCOVERY_ENGINE_OFF == 456

\* Object.values(SLAB_TIERS)
ALL_TIERS == {SLAB_TIERS[k] : k \in DOMAIN SLAB_TIERS}

\* dataSlice: { offset: 0, length }
dataSlice(d, length) ==
  IF d.len <= length THEN d
  ELSE Buf(length, [o \in {x \in DOMAIN d.nz : x < length} |-> d.nz[o]])

\* the literal field offsets of parseEngineLight
LightTable ==
  << <<"vault", 0, "u128">>,
     <<"insuranceFund.balance", 16, "u128">>,
     <<"insuranceFund.feeRevenue", 32, "u128">>,
     <<"currentSlot", 336, "u64">>,
     <<"fundingIndexQpbE6", 344, "i128">>,
     <<"lastFundingSlot", 360, "u64">>,
     <<"fundingRateBpsPerSlotLast", 368, "i64">>,
     <<"lastCrankSlot", 400, "u64">>,
     <<"maxCrankStalenessSlots", 408, "u64">>,
     <<"totalOpenInterest", 416, "u128">>,
     <<"cTot", 432, "u128">>,
     <<"pnlPosTot", 448, "u128">>,
     <<"liqCursor", 464, "u16">>,
     <<"gcCursor", 466, "u16">>,
     <<"lastSweepStartSlot", 472, "u64">>,
     <<"lastSweepCompleteSlot", 480, "u64">>,
     <<"crankCursor", 488, "u16">>,
     <<"sweepStartIdx", 490, "u16">>,
     <<"lifetimeLiquidations", 496, "u64">>,
     <<"lifetimeForceCloses", 504, "u64">>,
     <<"netLpPos", 512, "i128">>,
     <<"lpSumAbs", 528, "u128">>,
     <<"lpMaxAbs", 544, "u128">>,
     <<"lpMaxAbsSweep", 560, "u128">> >>

\* ENGINE_BITMAP_OFF of discovery.ts is 576, as in slab.ts
parseEngineLight(d, maxAccounts) ==
  LET base == DISCOVERY_ENGINE_OFF
      minLen == base + ENGINE_BITMAP_OFF
      bitmapWords == CeilDiv(maxAccounts, 64)
      numUsedOff == ENGINE_BITMAP_OFF + bitmapWords * 8
      nextAccountIdOff == CeilDiv(numUsedOff + 2, 8) * 8
      canReadNumUsed == d.len >= base + numUsedOff + 2
      canReadNextId == d.len >= base + nextAccountIdOff + 8
      fixed == TableValue(d, LightTable, base)
      reads == TableReads(LightTable, base)
               \cup (IF canReadNumUsed THEN {<<base + numUsedOff, 2>>} ELSE {})
               \cup (IF canReadNextId THEN {<<base + nextAccountIdOff, 8>>} ELSE {})
      value == [n \in DOMAIN fixed \cup {"numUsedAccounts", "nextAccountId"} |->
                  IF n = "numUsedAccounts"
                  THEN IF canReadNumUsed THEN readU16LE(d, base + numUsedOff) ELSE 0
                  ELSE IF n = "nextAccountId"
                  THEN IF canReadNextId THEN readU64LE(d, base + nextAccountIdOff) ELSE <<>>
                  ELSE fixed[n]]
  IN  IF d.len < minLen THEN Fail("too_short")
      ELSE Finish(d, reads, value)

(***************************************************************************)
(* encI128 (abi/encode): 16 bytes little-endian, two's complement          *)
(***************************************************************************)
\* a < b on signed bigints
SLt(a, b) ==
  IF a.neg /\ ~b.neg THEN TRUE
  ELSE IF ~a.neg /\ b.neg THEN FALSE
  ELSE IF a.neg THEN BCmp(a.mag, b.mag) > 0
  ELSE BCmp(a.mag, b.mag) < 0

\* x & y on bigints
BAnd(a, b) == Norm([i \in 1..Max2(Len(a), Len(b)) |-> ByteAnd(Digit(a, i), Digit(b, i))])

\* DataView.setBigUint64(off, x, true): the 8 low bytes of x
U64Bytes(x) == [i \in 1..8 |-> Digit(x, i)]

MASK_64 == BFromHex([i \in 1..16 |-> 15])

encI128(n) ==
  LET min == Signed(TRUE, BShlBytes(<<128>>, 15))
      max == Signed(FALSE, BSub(BShlBytes(<<128>>, 15), <<1>>))
  IN  IF SLt(n, min) \/ SLt(max, n) THEN [status |-> "out_of_range"]
      ELSE LET unsigned == IF n.neg THEN BSub(Pow256(16), n.mag) ELSE n.mag
               lo == BAnd(unsigned, MASK_64)
               hi == BShrBytes(unsigned, 8)
           IN  [status |-> "ok", value |-> U64Bytes(lo) \o U64Bytes(hi)]

(***************************************************************************)
(* DexPriceResolver (dex-oracle.ts)                                        *)
(***************************************************************************)
RAYDIUM_CLMM_MIN_LEN == 269

\* readU64LE of dex-oracle.ts: two 32-bit halves, lo | (hi << 32n)
dexReadU64LE(d, offset) ==
  LET lo == readU32LE(d, offset)
      hi == readU32LE(d, offset + 4)
  IN  BOr(lo, BShlBytes(hi, 4))

\* a 128-bit reader that takes the high half from the lower address
dexReadU128LEHalvesSwapped(d, offset) ==
  BOr(dexReadU64LE(d, offset + 8), BShlBytes(dexReadU64LE(d, offset), 8))

dexReadU128LE(d, offset) ==
  LET lo == dexReadU64LE(d, offset)
      hi == dexReadU64LE(d, offset + 8)
  IN  BOr(lo, BShlBytes(hi, 8))

\* a thrown Error whose message starts with the given text
DexFail(message) == [status |-> "too_short", reads |-> {}, message |-> message]

PUMPSWAP_MIN_LEN == 195

\* new PublicKey(data.slice(from, from + 32))
PublicKeyAt(d, from) == Bytes(d, from, 32)

parsePumpSwapPool(d) ==
  IF d.len < PUMPSWAP_MIN_LEN THEN DexFail("PumpSwap pool data too short")
  ELSE Finish(d, {<<35, 32>>, <<67, 32>>, <<131, 32>>, <<163, 32>>},
              [dexType |-> "pumpswap",
               baseMint |-> PublicKeyAt(d, 35),
               quoteMint |-> PublicKeyAt(d, 67),
               baseVault |-> PublicKeyAt(d, 131),
               quoteVault |-> PublicKeyAt(d, 163)])

SPL_TOKEN_AMOUNT_MIN_LEN == 72

\* a constant-product price that takes the amounts from the start of the vaults
computePumpSwapPriceE6AmountAtStart(poolData, vaultData) ==
  IF vaultData.base.len < SPL_TOKEN_AMOUNT_MIN_LEN
  THEN DexFail("PumpSwap base vault data too short")
  ELSE IF vaultData.quote.len < SPL_TOKEN_AMOUNT_MIN_LEN
  THEN DexFail("PumpSwap quote vault data too short")
  ELSE IF dexReadU64LE(vaultData.base, 0) = <<>> THEN Finish(poolData, {}, <<>>)
  ELSE Finish(poolData, {},
              BDiv(BMul(dexReadU64LE(vaultData.quote, 0), BFromInt(1000000)),
                   dexReadU64LE(vaultData.base, 0)))

\* the pool data is not looked at; reads holds the reads of the pool data
computePumpSwapPriceE6(poolData, vaultData) ==
  IF vaultData.base.len < SPL_TOKEN_AMOUNT_MIN_LEN
  THEN DexFail("PumpSwap base vault data too short")
  ELSE IF vaultData.quote.len < SPL_TOKEN_AMOUNT_MIN_LEN
  THEN DexFail("PumpSwap quote vault data too short")
  ELSE LET baseAmount == dexReadU64LE(vaultData.base, 64)
           quoteAmount == dexReadU64LE(vaultData.quote, 64)
       IN  IF baseAmount = <<>> THEN Finish(poolData, {}, <<>>)
           ELSE Finish(poolData, {}, BDiv(BMul(quoteAmount, BFromInt(1000000)), baseAmount))

parseRaydiumClmmPool(d) ==
  IF d.len < RAYDIUM_CLMM_MIN_LEN THEN DexFail("Raydium CLMM pool data too short")
  ELSE Finish(d, {<<73, 32>>, <<105, 32>>},
              [dexType |-> "raydium-clmm",
               baseMint |-> PublicKeyAt(d, 73),
               quoteMint |-> PublicKeyAt(d, 105)])

\* the price computed in the naive order: square, shift by 128 bits, then
\* scale by 10^6 and the decimal adjustment
computeRaydiumClmmPriceE6SquareFirst(d) ==
  LET sqrtPriceX64 == dexReadU128LE(d, 253)
      adjustedDiff == readU8(d, 233) - readU8(d, 234)
      raw == BMul(BShrBytes(BMul(sqrtPriceX64, sqrtPriceX64), 16), BFromInt(1000000))
      reads == {<<233, 1>>, <<234, 1>>, <<253, 4>>, <<257, 4>>, <<261, 4>>, <<265, 4>>}
  IN  IF d.len < RAYDIUM_CLMM_MIN_LEN THEN DexFail("Raydium CLMM data too short")
      ELSE IF adjustedDiff >= 0 THEN Finish(d, reads, BMul(raw, Pow10(adjustedDiff)))
      ELSE Finish(d, reads, BDiv(raw, Pow10(0 - adjustedDiff)))

computeRaydiumClmmPriceE6(d) ==
  IF d.len < RAYDIUM_CLMM_MIN_LEN THEN DexFail("Raydium CLMM data too short")
  ELSE LET decimals0 == readU8(d, 233)
           decimals1 == readU8(d, 234)
           sqrtPriceX64 == dexReadU128LE(d, 253)
           scaledSqrt == BMul(sqrtPriceX64, BFromInt(1000000))
           term == BShrBytes(scaledSqrt, 8)
           priceE6Raw == BShrBytes(BMul(term, sqrtPriceX64), 8)
           decimalDiff == 6 + decimals0 - decimals1
           adjustedDiff == decimalDiff - 6
           reads == {<<233, 1>>, <<234, 1>>, <<253, 4>>, <<257, 4>>, <<261, 4>>, <<265, 4>>}
       IN  IF sqrtPriceX64 = <<>> THEN Finish(d, reads, <<>>)
           ELSE IF adjustedDiff >= 0
                THEN Finish(d, reads, BMul(priceE6Raw, Pow10(adjustedDiff)))
                ELSE Finish(d, reads, BDiv(priceE6Raw, Pow10(0 - adjustedDiff)))

METEORA_DLMM_MIN_LEN == 145

parseMeteoraPool(d) ==
  IF d.len < METEORA_DLMM_MIN_LEN THEN DexFail("Meteora DLMM pool data too short")
  ELSE Finish(d, {<<81, 32>>, <<113, 32>>},
              [dexType |-> "meteora-dlmm",
               baseMint |-> PublicKeyAt(d, 81),
               quoteMint |-> PublicKeyAt(d, 113)])

\* 1_000_000_000_000_000_000n
SCALE == Pow10(18)

\* number of bits of a normalised bigint
BitLen(a) ==
  IF a = <<>> THEN 0
  ELSE 8 * (Len(a) - 1) + (CHOOSE k \in 1..8 : 2 ^ (k - 1) <= a[Len(a)] /\ a[Len(a)] < 2 ^ k)

\* the largest bigint the runtime builds: a result of more bits is a
\* RangeError (2^30 bits in V8)
MAX_BIGINT_BITS == 2 ^ 30

\* bigints of up to MaxExactBytes bytes are carried digit by digit; a longer
\* one is carried as the interval minBits..maxBits that holds its bit length
MaxExactBytes == 40

Known(v) == [known |-> TRUE, v |-> v]
Sized(lo, hi) == [known |-> FALSE, minBits |-> lo, maxBits |-> hi]
Carry(v) == IF Len(v) <= MaxExactBytes THEN Known(v) ELSE Sized(BitLen(v), BitLen(v))
MinBits(x) == IF x.known THEN BitLen(x.v) ELSE x.minBits
MaxBits(x) == IF x.known THEN BitLen(x.v) ELSE x.maxBits

\* a variant that divides the product by 10 * SCALE
MulDivScaleTimesTen(x, y) ==
  IF x.known /\ y.known
  THEN [status |-> "ok", x |-> Carry(BDiv(BMul(x.v, y.v), Pow10(19)))]
  ELSE [status |-> "ok_or_range_error"]

\* (x * y) / SCALE for x, y > 0: the product of an a-bit and a b-bit number
\* has a + b - 1 or a + b bits, and 2^59 < SCALE < 2^60
MulDivScale(x, y) ==
  IF x.known /\ y.known
  THEN [status |-> "ok", x |-> Carry(BDiv(BMul(x.v, y.v), SCALE))]
  ELSE IF MinBits(x) - 1 > MAX_BIGINT_BITS - MinBits(y)
  THEN [status |-> "range_error"]
  ELSE IF MaxBits(x) <= MAX_BIGINT_BITS - MaxBits(y)
  THEN [status |-> "ok",
        x |-> Sized(MinBits(x) + MinBits(y) - 61, MaxBits(x) + MaxBits(y) - 59)]
  ELSE [status |-> "ok_or_range_error"]

\* one pass of the while loop, for bit i of the n bits of exp
MeteoraLoopStep(st, exp, n, i) ==
  LET r == IF BBit(exp, i) = 1 THEN MulDivScale(st.result, st.b)
           ELSE [status |-> "ok", x |-> st.result]
      b == IF i < n - 1 THEN MulDivScale(st.b, st.b) ELSE [status |-> "ok", x |-> st.b]
  IN  IF r.status # "ok" THEN [status |-> r.status]
      ELSE IF b.status # "ok" THEN [status |-> b.status]
      ELSE [status |-> "ok", result |-> r.x, b |-> b.x]

\* passes lo..hi of the while loop; a thrown error ends the loop
RECURSIVE MeteoraLoop(_, _, _, _, _)
MeteoraLoop(st, exp, n, lo, hi) ==
  IF st.status # "ok" THEN st
  ELSE IF lo > hi THEN st
  ELSE IF lo = hi THEN MeteoraLoopStep(st, exp, n, lo)
  ELSE LET mid == (lo + hi) \div 2
       IN  MeteoraLoop(MeteoraLoop(st, exp, n, lo, mid), exp, n, mid + 1, hi)

\* a final step that divides by SCALE where the code divides by 10^12
MeteoraQuoteBySCALE(d, reads, result, isNeg) ==
  IF ~result.known THEN [status |-> "ok_large", reads |-> reads]
  ELSE IF isNeg THEN Finish(d, reads, BDiv(BMul(SCALE, BFromInt(1000000)), result.v))
  ELSE Finish(d, reads, BDiv(result.v, SCALE))

\* the final step: SCALE * 10^6 / result below bin 0, result / 10^12 otherwise;
\* 10^24 < 2^80 and 2^39 < 10^12 < 2^40
MeteoraQuote(d, reads, result, isNeg) ==
  IF isNeg
  THEN IF result.known
       THEN IF result.v = <<>> THEN Finish(d, reads, <<>>)
            ELSE Finish(d, reads, BDiv(BMul(SCALE, BFromInt(1000000)), result.v))
       ELSE IF result.minBits > 80 THEN Finish(d, reads, <<>>)
            ELSE [status |-> "ok_large", reads |-> reads,
                  minBits |-> 0, maxBits |-> 80]
  ELSE IF result.known
       THEN LET q == BDiv(result.v, Pow10(12)) IN Finish(d, reads, q)
       ELSE [status |-> "ok_large", reads |-> reads,
             minBits |-> result.minBits - 40, maxBits |-> result.maxBits - 39]

\* a variant that quotes an index below bin 0 as the index above it
computeMeteoraDlmmPriceE6IgnoresSign(d) ==
  IF d.len < METEORA_DLMM_MIN_LEN THEN DexFail("Meteora DLMM data too short")
  ELSE LET binStep == readU16LE(d, 74)
           raw == readU32LE(d, 77)
           isNeg == ByteAt(d, 80) >= 128
           base == BAdd(SCALE, BDiv(BMulSmall(SCALE, binStep), BFromInt(10000)))
           exp == IF isNeg THEN BSub(Pow256(4), raw) ELSE raw
           reads == {<<74, 2>>, <<77, 4>>}
           st == MeteoraLoop([status |-> "ok", result |-> Known(SCALE), b |-> Known(base)],
                             exp, BitLen(exp), 0, BitLen(exp) - 1)
       IN  IF binStep = 0 THEN Finish(d, reads, <<>>)
           ELSE IF st.status # "ok" THEN [status |-> st.status, reads |-> reads]
           ELSE MeteoraQuote(d, reads, st.result, FALSE)

computeMeteoraDlmmPriceE6(d) ==
  IF d.len < METEORA_DLMM_MIN_LEN THEN DexFail("Meteora DLMM data too short")
  ELSE LET binStep == readU16LE(d, 74)
           raw == readU32LE(d, 77)
           isNeg == ByteAt(d, 80) >= 128
           base == BAdd(SCALE, BDiv(BMulSmall(SCALE, binStep), BFromInt(10000)))
           exp == IF isNeg THEN BSub(Pow256(4), raw) ELSE raw
           reads == {<<74, 2>>, <<77, 4>>}
           st == MeteoraLoop([status |-> "ok", result |-> Known(SCALE), b |-> Known(base)],
                             exp, BitLen(exp), 0, BitLen(exp) - 1)
       IN  IF binStep = 0 THEN Finish(d, reads, <<>>)
           ELSE IF st.status # "ok" THEN [status |-> st.status, reads |-> reads]
           ELSE MeteoraQuote(d, reads, st.result, isNeg)

\* the switch of parseDexPool
parseDexPool(dexType, d) ==
  CASE dexType = "pumpswap" -> parsePumpSwapPool(d)
    [] dexType = "raydium-clmm" -> parseRaydiumClmmPool(d)
    [] dexType = "meteora-dlmm" -> parseMeteoraPool(d)

\* vaultData is NoVault when the optional argument is left out
NoVault == [none |-> TRUE]

computeDexSpotPriceE6(dexType, d, vaultData) ==
  CASE dexType = "pumpswap" ->
         IF vaultData = NoVault
         THEN [status |-> "no_vault_data", reads |-> {},
               message |-> "PumpSwap requires vaultData"]
         ELSE computePumpSwapPriceE6(d, vaultData)
    [] dexType = "raydium-clmm" -> computeRaydiumClmmPriceE6(d)
    [] dexType = "meteora-dlmm" -> computeMeteoraDlmmPriceE6(d)

(***************************************************************************)
(* Inputs: the buffers a caller may hand to the decoders                   *)
(***************************************************************************)
LenSlack == 1
IdxSlack == 1
MaxUsedBits == 2

\* byte map holding seq at offset off (zero bytes are left out)
WriteBytes(off, seq) ==
  [o \in {off + i - 1 : i \in {j \in 1..Len(seq) : seq[j] # 0}} |-> seq[o - off + 1]]

Merge(f, g) == [o \in DOMAIN f \cup DOMAIN g |-> IF o \in DOMAIN f THEN f[o] ELSE g[o]]

EmptyMap == [o \in {} |-> 0]

\* lengths at which some decoder's length check flips, the sizes the tests
\* use, and the total lengths of tiered and non-tiered capacities
EdgeLens ==
  {0, 10, RESERVED_OFF + 8, RESERVED_OFF + 16, HEADER_LEN, CONFIG_OFFSET + CONFIG_LEN,
   ENGINE_OFF + ENGINE_PARAMS_OFF + 144,
   ENGINE_OFF + ENGINE_BITMAP_OFF + DEFAULT_BITMAP_WORDS * 8,
   ENGINE_OFF + ENGINE_ACCOUNTS_OFF, ENGINE_OFF + ENGINE_ACCOUNTS_OFF + ACCOUNT_SIZE,
   992560, 1025568}
  \cup {slabDataSize(n) : n \in {64, 128, 256, 1024, 4096}}

Lens == {n \in UNION {(L - LenSlack)..(L + LenSlack) : L \in EdgeLens} : n >= 0}

\* the magic as the program stores it, and the header of the parser test
MagicBytes == [i \in 1..8 |-> Digit(MAGIC, i)]

MockHeader(magic) ==
  Merge(WriteBytes(0, magic),
        Merge(WriteBytes(8, <<1, 0, 0, 0>>),
              Merge(WriteBytes(12, <<255>>), WriteBytes(16, [i \in 1..32 |-> 1]))))

\* the magic with one byte changed
FlipDeltas == {1, 128, 255}
Flipped == {[MagicBytes EXCEPT ![i] = (@ + dl) % 256] : i \in 1..8, dl \in FlipDeltas}

HeaderLens == {HEADER_LEN - 1, HEADER_LEN, slabDataSize(256)}

\* occupancy bitmaps: at most MaxUsedBits used slots among a few slot numbers
UsedBitChoices == {0, 1, 63, 64, 65, 255}
UsedSets == {S \in SUBSET UsedBitChoices : Cardinality(S) <= MaxUsedBits}

RECURSIVE SumPow2(_)
SumPow2(S) == IF S = {} THEN 0
              ELSE LET x == CHOOSE y \in S : TRUE IN 2 ^ x + SumPow2(S \ {x})

BitmapBytes(S) ==
  LET bytes == {b \div 8 : b \in S}
  IN  [o \in {ENGINE_OFF + ENGINE_BITMAP_OFF + k : k \in bytes} |->
         SumPow2({b % 8 : b \in {c \in S : c \div 8 = o - ENGINE_OFF - ENGINE_BITMAP_OFF}})]

BitmapLens == {slabDataSize(64), slabDataSize(256), 1025568}

\* a slab of the given capacity with a few engine fields set: vault,
\* currentSlot, numUsedAccounts and nextAccountId
MockEngine(capacity) ==
  LET numUsedOff == ENGINE_BITMAP_OFF + CeilDiv(capacity, 64) * 8
  IN  Merge(MockHeader(MagicBytes),
            Merge(Merge(WriteBytes(ENGINE_OFF + ENGINE_VAULT_OFF, <<64, 66, 15>>),
                        WriteBytes(ENGINE_OFF + ENGINE_CURRENT_SLOT_OFF, <<42>>)),
                  Merge(WriteBytes(ENGINE_OFF + numUsedOff, <<3>>),
                        WriteBytes(ENGINE_OFF + CeilDiv(numUsedOff + 2, 8) * 8, <<4>>))))

\* flag bytes: each of the two flags with and without the other six bits
FlagBytes == {0, 1, 2, 3, 4, 128, 252, 253, 254, 255}

\* a header with different admin and pending-admin identities
MockIdentities ==
  Merge(MockHeader(MagicBytes), WriteBytes(48, [i \in 1..32 |-> 2]))

\* a slab whose config holds funding_premium_weight_bps = 5, thresh_floor = 77
\* and last_effective_price_e6 = 88 at their places in the documented layout
MockConfig ==
  Merge(MockHeader(MagicBytes),
        Merge(WriteBytes(CONFIG_OFFSET + 160, <<5>>),
              Merge(WriteBytes(CONFIG_OFFSET + 192, <<77>>),
                    WriteBytes(CONFIG_OFFSET + 344, <<88>>))))

Buffers ==
  {Buf(n, EmptyMap) : n \in Lens}
  \cup {Buf(n, MockHeader(m)) : n \in HeaderLens, m \in {MagicBytes} \cup Flipped}
  \cup {Buf(n, BitmapBytes(S)) : n \in BitmapLens, S \in UsedSets}
  \cup {Buf(slabDataSize(c), MockEngine(c)) : c \in {256, 4096}}
  \cup {Buf(n, MockConfig) : n \in {CONFIG_OFFSET + CONFIG_LEN, slabDataSize(256)}}
  \cup {Buf(HEADER_LEN, Merge(WriteBytes(13, <<f>>), MockIdentities)) : f \in FlagBytes}

Caps == {0} \cup Range(DetectTiers)

Indices ==
  {Num(c + k, 1) : c \in Caps, k \in (0 - IdxSlack)..IdxSlack}
  \cup {Num(-1, 2), Num(1, 2), Num(127, 2), Num(8191, 2)}

SizeArgs == {1, 64, 128, 256, 512, 1024, 2048, 4096}

(***************************************************************************)
(* The caller: it owns one already-fetched buffer, which no decoder ever   *)
(* writes, and calls any decoder on it in any order                        *)
(***************************************************************************)
NoCall == [op |-> "none"]

Init ==
  /\ data \in Buffers
  /\ call = NoCall

\* a call is made when the previous one has returned; calls are synchronous
Call(op, out) ==
  /\ call = NoCall
  /\ call' = [op |-> op, out |-> out]
  /\ UNCHANGED data

CallIdx(op, idx, out) ==
  /\ call = NoCall
  /\ call' = [op |-> op, idx |-> idx, out |-> out]
  /\ UNCHANGED data

\* the caller has consumed the result
Return ==
  /\ call # NoCall
  /\ call' = NoCall
  /\ UNCHANGED data

DoDetectLayout == Call("detectLayout", detectLayout(data.len))

DoSlabDataSize == \E n \in SizeArgs : CallIdx("slabDataSize", n, slabDataSize(n))

DoMaxAccountIndex == Call("maxAccountIndex", maxAccountIndex(data.len))

DoParseHeader == Call("parseHeader", parseHeader(data))

DoParseConfig == Call("parseConfig", parseConfig(data))

DoParseParams == Call("parseParams", parseParams(data))

DoParseEngine == Call("parseEngine", parseEngine(data))

DoReadNonce == Call("readNonce", readNonce(data))

DoReadLastThrUpdateSlot == Call("readLastThrUpdateSlot", readLastThrUpdateSlot(data))

DoParseUsedIndices == Call("parseUsedIndices", parseUsedIndices(data))

DoIsAccountUsed == \E idx \in Indices : CallIdx("isAccountUsed", idx, isAccountUsed(data, idx))

DoParseAccount == \E idx \in Indices : CallIdx("parseAccount", idx, parseAccount(data, idx))

DoParseAllAccounts == Call("parseAllAccounts", parseAllAccounts(data))

\* discovery parses the downloaded slice of an account with its tier's capacity
DoParseEngineLight ==
  \E maxAccounts \in {t.maxAccounts : t \in ALL_TIERS} :
    /\ call = NoCall
    /\ call' = [op |-> "parseEngineLight", maxAccounts |-> maxAccounts,
                out |-> parseEngineLight(dataSlice(data, HEADER_SLICE_LENGTH), maxAccounts)]
    /\ UNCHANGED data

Next ==
  \/ DoDetectLayout
  \/ DoSlabDataSize
  \/ DoMaxAccountIndex
  \/ DoParseHeader
  \/ DoParseConfig
  \/ DoParseParams
  \/ DoParseEngine
  \/ DoReadNonce
  \/ DoReadLastThrUpdateSlot
  \/ DoParseUsedIndices
  \/ DoIsAccountUsed
  \/ DoParseAccount
  \/ DoParseAllAccounts
  \/ DoParseEngineLight
  \/ Return

Spec == Init /\ [][Next]_vars

(***************************************************************************)
(* Reference layout arithmetic used by the properties below                *)
(***************************************************************************)
\* smallest multiple of 8 that is >= x
AlignUp8(x) == CHOOSE m \in x..(x + 7) : m % 8 = 0

\* smallest w with 64 * w >= c
WordsFor(c) == CHOOSE w \in 0..c : 64 * w >= c /\ (w = 0 \/ 64 * (w - 1) < c)

RefAccountsOff(c) == AlignUp8(576 + 8 * WordsFor(c) + 18 + 2 * c)

RefTotalLen(c) == 600 + RefAccountsOff(c) + 248 * c

\* the capacities whose total length the resolver accepts
ResolvedCaps == {64, 256, 1024, 4096}

HasCap(len) == \E c \in ResolvedCaps : len = RefTotalLen(c)

CapOf(len) == CHOOSE c \in ResolvedCaps : len = RefTotalLen(c)

(***************************************************************************)
(* C1: detectLayout returns a descriptor only for the exact total length   *)
(* of the capacity it returns (600 + accountsOff + capacity * 248), with   *)
(* accountsOff a multiple of 8 and bitmapWords = ceil(capacity / 64); any  *)
(* other length, also one byte off a tier length, gives null.              *)
(***************************************************************************)
C1_DetectLayoutExact ==
  call.op = "detectLayout" =>
    /\ ~call.out.isNull =>
         /\ data.len = 600 + call.out.accountsOff + call.out.maxAccounts * 248
         /\ call.out.accountsOff % 8 = 0
         /\ call.out.bitmapWords = WordsFor(call.out.maxAccounts)
    /\ call.out.isNull <=> ~HasCap(data.len)
    /\ (\E c \in ResolvedCaps : data.len \in {RefTotalLen(c) - 1, RefTotalLen(c) + 1})
         => call.out.isNull

C1_Witness ==
  /\ call.op = "detectLayout"
  /\ data.len = RefTotalLen(1024)
  /\ ~call.out.isNull
  /\ call.out.maxAccounts = 1024

(***************************************************************************)
(* C2: for the tiers 256 / 1024 / 4096 the tier table, the size formula    *)
(* and the resolver agree: slabDataSize(C) is the tier's dataSize (65232 / *)
(* 257328 / 1025712) and detectLayout of that length has capacity C.       *)
(***************************************************************************)
ClaimedTiers == {<<256, 65232>>, <<1024, 257328>>, <<4096, 1025712>>}

LayoutDecoders ==
  {"parseEngine", "parseUsedIndices", "isAccountUsed", "parseAccount", "parseAllAccounts"}

C3_UnknownLayoutFails ==
  (call.op \in LayoutDecoders /\ ~HasCap(data.len)) => call.out.status # "ok"

(***************************************************************************)
(* C4: no decoder issues a primitive read whose offset + width exceeds the *)
(* buffer length; each fails with its own error (or returns false) first.  *)
(***************************************************************************)
BoundedDecoders ==
  {"parseHeader", "parseConfig", "parseParams", "parseEngine", "parseUsedIndices",
   "isAccountUsed", "parseAccount", "readNonce", "readLastThrUpdateSlot"}

C4_NoReadPastEnd ==
  call.op \in BoundedDecoders =>
    /\ \A r \in call.out.reads : r[1] + r[2] <= data.len
    /\ call.out.status # "oob_read"

(***************************************************************************)
(* C5: parseHeader fails as too short whenever the buffer has fewer than   *)
(* 104 bytes, before the magic is examined; with at least 104 bytes it     *)
(* fails with invalid magic exactly when the first 8 bytes differ from the *)
(* little-endian magic 0x504552434f4c4154 (bytes 54 41 4c 4f 43 52 45 50), *)
(* so any single changed magic byte makes decoding fail.                   *)
(***************************************************************************)
MagicLE == <<84, 65, 76, 79, 67, 82, 69, 80>>

C6_ParseAccountRange ==
  (call.op = "parseAccount" /\ HasCap(data.len)) =>
    LET C == CapOf(data.len)
        inRange == IsInteger(call.idx) /\ call.idx.num >= 0 /\ call.idx.num < C * call.idx.den
        start == 600 + RefAccountsOff(C) + IntOf(call.idx) * 248
    IN  /\ call.out.status = "out_of_range" <=> ~inRange
        /\ ~inRange => call.out.reads = {}
        /\ inRange =>
             /\ call.out.status = "ok"
             /\ start + 248 <= data.len
             /\ <<start, 8>> \in call.out.reads
             /\ <<start + 232, 8>> \in call.out.reads
             /\ \A r \in call.out.reads : r[1] >= start /\ r[1] + r[2] <= start + 248

C6_Witness ==
  /\ call.op = "parseAccount"
  /\ data.len = RefTotalLen(256)
  /\ call.idx = Num(255, 1)
  /\ call.out.status = "ok"
  /\ <<RefTotalLen(256) - 248, 8>> \in call.out.reads

(***************************************************************************)
(* C7: on a buffer whose length resolves to capacity C, for every index i  *)
(* in [0, C), isAccountUsed(data, i) is true exactly when i is an element  *)
(* of parseUsedIndices(data).                                              *)
(***************************************************************************)
C7_PointQueryAgreesWithScan ==
  /\ (call.op = "parseUsedIndices" /\ HasCap(data.len)) =>
       /\ call.out.status = "ok"
       /\ \A i \in 0..(CapOf(data.len) - 1) :
            LET q == isAccountUsed(data, Num(i, 1))
            IN  q.status = "ok" /\ (q.value <=> i \in Range(call.out.value))
  /\ (call.op = "isAccountUsed" /\ HasCap(data.len) /\ IsInteger(call.idx)
        /\ call.idx.num >= 0 /\ IntOf(call.idx) < CapOf(data.len)) =>
       /\ call.out.status = "ok"
       /\ call.out.value <=> IntOf(call.idx) \in Range(parseUsedIndices(data).value)

C7_Witness ==
  /\ call.op = "isAccountUsed"
  /\ data.len = RefTotalLen(256)
  /\ call.idx = Num(255, 1)
  /\ call.out.status = "ok"
  /\ call.out.value
  /\ parseUsedIndices(data).value = <<63, 255>>

(***************************************************************************)
(* C8: isAccountUsed returns false and never fails for every idx outside   *)
(* [0, capacity) - negative, >= capacity, or not an integer - whatever the *)
(* buffer's length or contents.  The capacity is the one the length        *)
(* resolves to, or the 4096-slot default when it resolves to none.         *)
(***************************************************************************)
C8_OutOfRangeIsAbsent ==
  call.op = "isAccountUsed" =>
    LET cap == IF HasCap(data.len) THEN CapOf(data.len) ELSE 4096
        outside == \/ ~IsInteger(call.idx)
                   \/ call.idx.num < 0
                   \/ call.idx.num >= cap * call.idx.den
    IN  outside => (call.out.status = "ok" /\ call.out.value = FALSE)

C8_Witness ==
  /\ call.op = "isAccountUsed"
  /\ data.len = 10
  /\ call.idx = Num(4096, 1)
  /\ call.out.status = "ok"
  /\ call.out.value = FALSE

(***************************************************************************)
(* The 128-bit signed round trip: a caller encodes a value with encI128    *)
(* and decodes the 16 bytes with readI128LE                                *)
(***************************************************************************)
MaxMagBytes == 17

TopBytes == {1, 127, 128, 255}
FillBytes == {0, 255}

Magnitudes ==
  {<<>>} \cup {[i \in 1..k |-> IF i = k THEN t ELSE f] :
                 k \in 1..MaxMagBytes, t \in TopBytes, f \in FillBytes}

I128Inputs == {Signed(neg, m) : neg \in BOOLEAN, m \in Magnitudes}

InitCodec ==
  /\ data = Buf(0, EmptyMap)
  /\ call = NoCall

DoEncI128 ==
  \E v \in I128Inputs :
    LET e == encI128(v)
    IN  /\ call = NoCall
        /\ call' = [op |-> "encI128", arg |-> v, out |-> e]
        /\ data' = IF e.status = "ok" THEN Buf(16, WriteBytes(0, e.value)) ELSE data

DoReadI128LE ==
  /\ call.op = "encI128"
  /\ call.out.status = "ok"
  /\ call' = [op |-> "readI128LE", arg |-> call.arg, out |-> readI128LE(data, 0)]
  /\ UNCHANGED data

\* the caller has consumed the result and dropped the 16-byte buffer
ReturnCodec ==
  /\ call # NoCall
  /\ call' = NoCall
  /\ data' = Buf(0, EmptyMap)

NextCodec ==
  \/ DoEncI128
  \/ DoReadI128LE
  \/ ReturnCodec

SpecCodec == InitCodec /\ [][NextCodec]_vars

\* 2^k: 2^(k mod 8) times 256^(k div 8)
RECURSIVE Pow2(_)
Pow2(k) == IF k < 8 THEN <<2 ^ k>> ELSE <<0>> \o Pow2(k - 8)

InI128Range(v) ==
  IF v.neg THEN BCmp(v.mag, Pow2(127)) <= 0 ELSE BCmp(v.mag, Pow2(127)) < 0

(***************************************************************************)
(* C9: for every v in [-2^127, 2^127 - 1], the 16 bytes encI128 writes     *)
(* (low then high 64-bit half of the two's-complement form) decode with    *)
(* readI128LE to exactly v; in particular for -1, -2^127 and 2^127 - 1.    *)
(***************************************************************************)
C9_I128RoundTrip ==
  /\ (call.op = "encI128" /\ InI128Range(call.arg)) => call.out.status = "ok"
  /\ call.op = "readI128LE" => (InI128Range(call.arg) /\ call.out = call.arg)

C9_Witness ==
  /\ call.op = "readI128LE"
  /\ call.arg = [neg |-> TRUE, mag |-> Pow2(127)]
  /\ call.out = call.arg
  /\ data.len = 16

(***************************************************************************)
(* The price resolvers: a caller holds a fetched pool account and asks for *)
(* its spot price                                                          *)
(***************************************************************************)
\* square-root prices (Q64.64): the exponents and offsets of 2^e + k
SqrtExps == {0, 32, 56, 63, 64, 65, 96, 127}
SqrtOffsets == {0, 1}
Decimals == {0, 6, 9, 18}
PoolLens == {RAYDIUM_CLMM_MIN_LEN - 1, RAYDIUM_CLMM_MIN_LEN, 280}

SqrtPrices ==
  {<<>>, BSub(Pow2(64), <<1>>), BSub(Pow2(128), <<1>>),
   BFromHex(<<1, 2, 3, 4, 5, 6, 7, 8, 9, 10, 11, 12, 13, 14, 15, 1, 2, 3, 4, 5>>)}
  \cup {BAdd(Pow2(e), BFromInt(k)) : e \in SqrtExps, k \in SqrtOffsets}

\* the pool account as the test builds it (makeRaydiumClmmData)
RaydiumData(len, d0, d1, s) ==
  Buf(len, Merge(WriteBytes(233, <<d0, d1>>), WriteBytes(253, [i \in 1..16 |-> Digit(s, i)])))

\* the bytes of a buffer of the given length
Clip(len, nz) == Buf(len, [o \in {x \in DOMAIN nz : x < len} |-> nz[o]])

\* fillPubkey(buf, offset, seed)
Pubkey(offset, seed) == WriteBytes(offset, [i \in 1..32 |-> (seed + i - 1) % 256])

\* the constant-product pool account as the test builds it (makePumpSwapPoolData)
PumpSwapLens == {PUMPSWAP_MIN_LEN - 1, PUMPSWAP_MIN_LEN, 200}
PumpSwapData(len) ==
  Clip(len, Merge(Merge(Pubkey(35, 1), Pubkey(67, 33)), Merge(Pubkey(131, 65), Pubkey(163, 97))))

\* token vault accounts (makeSplTokenAccount): the amount is the u64 at byte 64
\* <<base amount, quote amount>>
VaultAmounts ==
  {<<BFromInt(1000000000), BFromInt(500000000)>>, <<<<>>, BFromInt(500000000)>>,
   <<<<>>, <<>>>>, <<BFromInt(1000000000), <<>>>>, <<BFromInt(3), <<1>>>>,
   <<BFromInt(3), BSub(Pow2(64), <<1>>)>>,
   <<BSub(Pow2(64), <<1>>), BSub(Pow2(64), <<1>>)>>}
Vault(len, amount) == Clip(len, WriteBytes(64, U64Bytes(amount)))
VaultData(b, q) == [base |-> b, quote |-> q]
VaultPairs ==
  {VaultData(Vault(165, a[1]), Vault(165, a[2])) : a \in VaultAmounts}
  \cup {VaultData(Vault(SPL_TOKEN_AMOUNT_MIN_LEN, BFromInt(3)),
                  Vault(SPL_TOKEN_AMOUNT_MIN_LEN, BFromInt(1000000000))),
        VaultData(Vault(10, <<>>), Vault(165, <<1>>)),
        VaultData(Vault(165, <<1>>), Vault(SPL_TOKEN_AMOUNT_MIN_LEN - 1, <<>>)),
        VaultData(Vault(SPL_TOKEN_AMOUNT_MIN_LEN - 1, <<>>), Vault(10, <<>>))}

\* the discretized-bin pool account as the test builds it (makeMeteoraData):
\* bin step u16 at byte 74, active bin index i32 at byte 77
MeteoraLens == {METEORA_DLMM_MIN_LEN - 1, METEORA_DLMM_MIN_LEN, 200}
BinSteps == {0, 1, 10, 100, 65535}
ActiveIds == {0, 1, -1, 100, -100, 10000, -10000, 2147483647, -2147483647 - 1}
U16Bytes(n) == <<n % 256, n \div 256>>
I32Bytes(n) ==
  LET m == IF n >= 0 THEN n ELSE n + 2147483647 + 1
  IN  <<m % 256, (m \div 256) % 256, (m \div 65536) % 256,
        (m \div 16777216) + (IF n >= 0 THEN 0 ELSE 128)>>
MeteoraData(len, binStep, activeId) ==
  Clip(len, Merge(WriteBytes(74, U16Bytes(binStep)), WriteBytes(77, I32Bytes(activeId))))

DexTypes == {"pumpswap", "raydium-clmm", "meteora-dlmm"}

InitDex ==
  /\ data \in {RaydiumData(n, d0, d1, s) :
                 n \in PoolLens, d0 \in Decimals, d1 \in Decimals, s \in SqrtPrices}
              \cup {PumpSwapData(n) : n \in PumpSwapLens}
              \cup {MeteoraData(n, binStep, activeId) :
                      n \in MeteoraLens, binStep \in BinSteps, activeId \in ActiveIds}
  /\ call = NoCall

DoComputeRaydium == Call("computeRaydiumClmmPriceE6", computeRaydiumClmmPriceE6(data))

DoComputePumpSwap ==
  \E vaultData \in VaultPairs :
    /\ call = NoCall
    /\ call' = [op |-> "computePumpSwapPriceE6", vaultData |-> vaultData,
                out |-> computePumpSwapPriceE6(data, vaultData)]
    /\ UNCHANGED data

DoComputeMeteora == Call("computeMeteoraDlmmPriceE6", computeMeteoraDlmmPriceE6(data))

DoParseDexPool ==
  \E dexType \in DexTypes :
    /\ call = NoCall
    /\ call' = [op |-> "parseDexPool", dexType |-> dexType,
                out |-> parseDexPool(dexType, data)]
    /\ UNCHANGED data

\* the vault accounts are handed over for a constant-product pool, or
\* forgotten; the other families have none
VaultArgs(dexType) ==
  IF dexType = "pumpswap" THEN VaultPairs \cup {NoVault} ELSE {NoVault}

DoComputeDexSpotPriceE6 ==
  \E dexType \in DexTypes : \E vaultData \in VaultArgs(dexType) :
    /\ call = NoCall
    /\ call' = [op |-> "computeDexSpotPriceE6", dexType |-> dexType,
                vaultData |-> vaultData,
                out |-> computeDexSpotPriceE6(dexType, data, vaultData)]
    /\ UNCHANGED data

NextDex ==
  \/ DoComputeRaydium
  \/ DoComputePumpSwap
  \/ DoComputeMeteora
  \/ DoParseDexPool
  \/ DoComputeDexSpotPriceE6
  \/ Return

SpecDex == InitDex /\ [][NextDex]_vars

(***************************************************************************)
(* C10: with s the unsigned 128-bit value at byte 253 and d0, d1 the bytes *)
(* 233, 234, the concentrated-liquidity price is P * 10^(d0 - d1) when     *)
(* d0 >= d1 and floor(P / 10^(d1 - d0)) otherwise, where                   *)
(* P = (floor(s * 10^6 / 2^64) * s) >> 64, in exactly this order.          *)
(***************************************************************************)
RefClmmPrice(s, d0, d1) ==
  LET t == BDiv(BMul(s, Pow10(6)), Pow2(64))
      P == BDiv(BMul(t, s), Pow2(64))
  IN  IF d0 >= d1 THEN BMul(P, Pow10(d0 - d1)) ELSE BDiv(P, Pow10(d1 - d0))

C10_ClmmPriceFormula ==
  (call.op = "computeRaydiumClmmPriceE6" /\ data.len >= 269) =>
    /\ call.out.status = "ok"
    /\ call.out.value =
         RefClmmPrice(Norm(Bytes(data, 253, 16)), ByteAt(data, 233), ByteAt(data, 234))

C10_Witness ==
  /\ call.op = "computeRaydiumClmmPriceE6"
  /\ Norm(Bytes(data, 253, 16)) = Pow2(56)
  /\ ByteAt(data, 233) = 9
  /\ ByteAt(data, 234) = 6
  /\ call.out.status = "ok"
  /\ call.out.value = BFromInt(15000)

\* the fields of a concentrated-liquidity pool account
SqrtOf(d) == Norm(Bytes(d, 253, 16))

WithSqrt(d, s) == RaydiumData(d.len, ByteAt(d, 233), ByteAt(d, 234), s)

(***************************************************************************)
(* C11: with fixed decimals, the concentrated-liquidity price is 0 exactly *)
(* when the square-root price is 0, and strictly positive for every        *)
(* nonzero square-root price.                                              *)
(***************************************************************************)
C11_ClmmZeroIffSqrtZero ==
  (call.op = "computeRaydiumClmmPriceE6" /\ data.len >= 269) =>
    /\ call.out.status = "ok"
    /\ call.out.value = <<>> <=> SqrtOf(data) = <<>>

(***************************************************************************)
(* C12: with fixed decimals the concentrated-liquidity price is monotone   *)
(* in the square-root price: s1 <= s2 implies price(s1) <= price(s2).      *)
(***************************************************************************)
C12_ClmmMonotone ==
  (call.op = "computeRaydiumClmmPriceE6" /\ data.len >= 269) =>
    \A s2 \in SqrtPrices :
      BCmp(SqrtOf(data), s2) <= 0 =>
        BCmp(call.out.value, computeRaydiumClmmPriceE6(WithSqrt(data, s2)).value) <= 0

C12_Witness ==
  /\ call.op = "computeRaydiumClmmPriceE6"
  /\ data.len >= 269
  /\ SqrtOf(data) = BSub(Pow2(64), <<1>>)
  /\ ByteAt(data, 233) = 6
  /\ ByteAt(data, 234) = 6
  /\ BCmp(call.out.value, BFromInt(1000000)) < 0
  /\ computeRaydiumClmmPriceE6(WithSqrt(data, Pow2(64))).value = BFromInt(1000000)

(***************************************************************************)
(* C13: with square-root price 2^56, base decimals 9 and quote decimals 6  *)
(* the concentrated-liquidity price is strictly positive and lies in the   *)
(* range 15,000 to 16,000 around 15,258, whereas the naive formula         *)
(* floor(s^2 / 2^128) * 10^9 gives 0.                                      *)
(***************************************************************************)
NaiveClmmPrice(s, d0, d1) == BMul(BDiv(BMul(s, s), Pow2(128)), Pow10(6 + d0 - d1))

C13_MicroPrice ==
  (/\ call.op = "computeRaydiumClmmPriceE6"
   /\ data.len >= 269
   /\ SqrtOf(data) = Pow2(56)
   /\ ByteAt(data, 233) = 9
   /\ ByteAt(data, 234) = 6) =>
    /\ call.out.status = "ok"
    /\ call.out.value # <<>>
    /\ BCmp(call.out.value, BFromInt(15000)) >= 0
    /\ BCmp(call.out.value, BFromInt(16000)) <= 0
    /\ NaiveClmmPrice(Pow2(56), 9, 6) = <<>>

C13_Witness ==
  /\ call.op = "computeRaydiumClmmPriceE6"
  /\ data.len = 280
  /\ SqrtOf(data) = Pow2(56)
  /\ ByteAt(data, 233) = 9
  /\ ByteAt(data, 234) = 6
  /\ BCmp(call.out.value, BFromInt(15000)) >= 0
  /\ BCmp(call.out.value, BFromInt(16000)) <= 0

(***************************************************************************)
(* C14: computeDexSpotPriceE6("pumpswap", pool, {base, quote}) returns     *)
(* floor(quoteAmount * 10^6 / baseAmount), each amount being the           *)
(* little-endian u64 at byte 64 of its vault account, and returns 0        *)
(* without an error when baseAmount is 0.                                  *)
(***************************************************************************)
VaultAmount(vault) == Norm(Bytes(vault, 64, 8))

IsPumpSwapPriceCall ==
  /\ call.op = "computeDexSpotPriceE6"
  /\ call.dexType = "pumpswap"
  /\ call.vaultData # NoVault
  /\ call.vaultData.base.len >= 72
  /\ call.vaultData.quote.len >= 72

C14_PumpSwapPrice ==
  IsPumpSwapPriceCall =>
    /\ call.out.status = "ok"
    /\ call.out.value =
         IF VaultAmount(call.vaultData.base) = <<>> THEN <<>>
         ELSE BDiv(BMul(VaultAmount(call.vaultData.quote), Pow10(6)),
                   VaultAmount(call.vaultData.base))

C14_Witness ==
  /\ IsPumpSwapPriceCall
  /\ VaultAmount(call.vaultData.base) = BFromInt(1000000000)
  /\ VaultAmount(call.vaultData.quote) = BFromInt(500000000)
  /\ call.out.status = "ok"
  /\ call.out.value = BFromInt(500000)

(***************************************************************************)
(* C15: for inputs that meet the length minimums the three price functions *)
(* never fail: each returns a non-negative integer, and returns 0 whenever *)
(* the base balance is 0 (constant-product), the square-root price is 0    *)
(* (concentrated-liquidity) or the bin step is 0 (discretized-bin),        *)
(* whatever the other fields contain.                                      *)
(***************************************************************************)
\* a bigint was returned: digit sequences and bit-length intervals both
\* stand for naturals
Returned(out) == out.status \in {"ok", "ok_large"}

C15_PriceFunctionsTotal ==
  /\ (call.op = "computePumpSwapPriceE6" /\ data.len >= 195
        /\ call.vaultData.base.len >= 72 /\ call.vaultData.quote.len >= 72) =>
       /\ Returned(call.out)
       /\ VaultAmount(call.vaultData.base) = <<>> =>
            call.out.status = "ok" /\ call.out.value = <<>>
  /\ (call.op = "computeRaydiumClmmPriceE6" /\ data.len >= 269) =>
       /\ Returned(call.out)
       /\ SqrtOf(data) = <<>> => call.out.status = "ok" /\ call.out.value = <<>>
  /\ (call.op = "computeMeteoraDlmmPriceE6" /\ data.len >= 145) =>
       /\ Returned(call.out)
       /\ (ByteAt(data, 74) = 0 /\ ByteAt(data, 75) = 0) =>
            call.out.status = "ok" /\ call.out.value = <<>>

(***************************************************************************)
(* C16: for every nonzero bin step the discretized-bin price at active bin *)
(* index 0 is exactly 1,000,000.                                           *)
(***************************************************************************)
BinStepOf(d) == ByteAt(d, 74) + 256 * ByteAt(d, 75)

IsBinZeroCall ==
  /\ call.op = "computeMeteoraDlmmPriceE6"
  /\ data.len >= 145
  /\ BinStepOf(data) # 0
  /\ \A o \in 77..80 : ByteAt(data, o) = 0

C16_PriceAtBinZero ==
  IsBinZeroCall => call.out.status = "ok" /\ call.out.value = BFromInt(1000000)

C16_Witness ==
  /\ IsBinZeroCall
  /\ BinStepOf(data) = 65535
  /\ call.out.status = "ok"
  /\ call.out.value = BFromInt(1000000)

(***************************************************************************)
(* C26: for a nonzero bin step and n > 0 the Meteora price at index -n is  *)
(* floor(10^24 / R), where R is the 18-decimal fixed-point power computed  *)
(* for +n (the price at +n is floor(R / 10^12)); the base is never negated *)
(* or inverted before the exponentiation.                                  *)
(***************************************************************************)
ActiveIdNeg(d) == ByteAt(d, 80) >= 128

\* |activeId| as a bigint
ActiveIdAbs(d) ==
  IF ActiveIdNeg(d) THEN BSub(Pow256(4), readU32LE(d, 77)) ELSE readU32LE(d, 77)

\* R for +n: SCALE times (1 + binStep / 10000) ^ n by square and multiply,
\* every product divided by SCALE
FixedPointPower(binStep, n) ==
  MeteoraLoop([status |-> "ok", result |-> Known(SCALE),
               b |-> Known(BAdd(SCALE, BDiv(BMulSmall(SCALE, binStep), BFromInt(10000))))],
              n, BitLen(n), 0, BitLen(n) - 1)

IsMeteoraPowerCall ==
  /\ call.op = "computeMeteoraDlmmPriceE6"
  /\ data.len >= 145
  /\ BinStepOf(data) # 0
  /\ ActiveIdAbs(data) # <<>>
  /\ FixedPointPower(BinStepOf(data), ActiveIdAbs(data)).status = "ok"
  /\ FixedPointPower(BinStepOf(data), ActiveIdAbs(data)).result.known

C26_NegativeIndexIsReciprocal ==
  IsMeteoraPowerCall =>
    LET R == FixedPointPower(BinStepOf(data), ActiveIdAbs(data)).result.v IN
    /\ call.out.status = "ok"
    /\ call.out.value = IF ActiveIdNeg(data) THEN BDiv(Pow10(24), R)
                        ELSE BDiv(R, Pow10(12))

\* bin step 10 at index -10000: R is about e^10 * 10^18 and the price 45
C26_Witness ==
  /\ IsMeteoraPowerCall
  /\ ActiveIdNeg(data)
  /\ BinStepOf(data) = 10
  /\ ActiveIdAbs(data) = BFromInt(10000)
  /\ call.out.status = "ok"
  /\ call.out.value = BDiv(Pow10(24), FixedPointPower(10, BFromInt(10000)).result.v)
  /\ call.out.value # <<>>

(***************************************************************************)
(* C17: for each pool family, parseDexPool and computeDexSpotPriceE6 both  *)
(* reject pool data shorter than the family's minimum (constant-product    *)
(* 195, concentrated-liquidity 269, discretized-bin 145) with a too-short  *)
(* error that names the family, before any field is read.                  *)
(***************************************************************************)
FamilyMinLen(dexType) ==
  CASE dexType = "pumpswap" -> 195
    [] dexType = "raydium-clmm" -> 269
    [] dexType = "meteora-dlmm" -> 145

\* the too-short messages that name the family
FamilyTooShort(dexType) ==
  CASE dexType = "pumpswap" ->
         {"PumpSwap pool data too short", "PumpSwap data too short",
          "PumpSwap base vault data too short", "PumpSwap quote vault data too short"}
    [] dexType = "raydium-clmm" ->
         {"Raydium CLMM pool data too short", "Raydium CLMM data too short"}
    [] dexType = "meteora-dlmm" ->
         {"Meteora DLMM pool data too short", "Meteora DLMM data too short"}

\* a call on a short pool; a price call for a constant-product pool comes
\* with its vault accounts
IsShortPoolCall ==
  /\ call.op \in {"parseDexPool", "computeDexSpotPriceE6"}
  /\ data.len < FamilyMinLen(call.dexType)
  /\ (call.op = "computeDexSpotPriceE6" /\ call.dexType = "pumpswap") =>
       call.vaultData # NoVault

C17_ShortPoolRejected ==
  IsShortPoolCall =>
    /\ call.out.status = "too_short"
    /\ call.out.message \in FamilyTooShort(call.dexType)
    /\ call.out.reads = {}

(***************************************************************************)
(* Callers that share one fetched buffer: each decodes it when it likes,   *)
(* holds its result until it has used it, and looks layouts up in a memo   *)
(* keyed by buffer length. A call runs to completion (JavaScript is        *)
(* single-threaded), so calls interleave as wholes. In this specification  *)
(* call holds the fetched bytes, the callers' results and the memo.        *)
(***************************************************************************)
NumCallers == 2
Callers == 1..NumCallers

SharedLens == {HEADER_LEN, slabDataSize(64), slabDataSize(256)}
SharedBuffers ==
  {Clip(n, nz) : n \in SharedLens,
                 nz \in {EmptyMap, MockHeader(MagicBytes),
                         Merge(MockHeader(MagicBytes), BitmapBytes({0, 65}))}}

SharedOps ==
  {"parseHeader", "parseConfig", "parseEngine", "parseUsedIndices",
   "computeMeteoraDlmmPriceE6"}

Decode(op, d) ==
  CASE op = "detectLayout" -> detectLayout(d.len)
    [] op = "parseHeader" -> parseHeader(d)
    [] op = "parseConfig" -> parseConfig(d)
    [] op = "parseEngine" -> parseEngine(d)
    [] op = "parseUsedIndices" -> parseUsedIndices(d)
    [] op = "computeMeteoraDlmmPriceE6" -> computeMeteoraDlmmPriceE6(d)

\* a decoder that stamps the first byte of the buffer it was given
DecoderWritesStamp(op, d) == WriteBytes(0, <<1>>)

\* the bytes a call stores into its input: the readers wrap the buffer in a
\* DataView and call get* only
DecoderWrites(op, d) == EmptyMap

AfterCall(op, d) == Buf(d.len, Merge(DecoderWrites(op, d), d.nz))

NoMemo == [n \in {} |-> NullLayout]

InitShared ==
  /\ data \in SharedBuffers
  /\ call = [fetched |-> data, slots |-> [c \in Callers |-> NoCall], memo |-> NoMemo]

\* every caller is done with the old buffer and a new one is fetched
SharedFetch ==
  /\ \A c \in Callers : call.slots[c] = NoCall
  /\ data' \in SharedBuffers
  /\ call' = [call EXCEPT !.fetched = data']

SharedDecode ==
  \E c \in Callers, op \in SharedOps :
    /\ call.slots[c] = NoCall
    /\ call' = [call EXCEPT !.slots[c] = [op |-> op, out |-> Decode(op, data)]]
    /\ data' = AfterCall(op, data)

\* detectLayout through the memo: a hit returns the stored layout
SharedDetectLayout ==
  \E c \in Callers :
    /\ call.slots[c] = NoCall
    /\ LET hit == data.len \in DOMAIN call.memo
           out == IF hit THEN call.memo[data.len] ELSE detectLayout(data.len)
       IN  call' = [call EXCEPT
                      !.slots[c] = [op |-> "detectLayout", hit |-> hit, out |-> out],
                      !.memo = [n \in DOMAIN call.memo \cup {data.len} |->
                                  IF n = data.len THEN out ELSE call.memo[n]]]
    /\ data' = AfterCall("detectLayout", data)

SharedReturn ==
  \E c \in Callers :
    /\ call.slots[c] # NoCall
    /\ call' = [call EXCEPT !.slots[c] = NoCall]
    /\ UNCHANGED data

NextShared ==
  \/ SharedFetch
  \/ SharedDecode
  \/ SharedDetectLayout
  \/ SharedReturn

SpecShared == InitShared /\ [][NextShared]_vars

IsLightCall ==
  /\ call.op = "parseEngineLight"
  /\ data.len \in {t.dataSize : t \in ALL_TIERS}
  /\ call.maxAccounts = detectLayout(data.len).maxAccounts

C19_LightAgreesWithParseEngine ==
  IsLightCall =>
    /\ call.out.status = "ok"
    /\ \A r \in call.out.reads : r[1] >= 600
    /\ call.out.value = parseEngine(data).value

(***************************************************************************)
(* C20: parseConfig reads every field at the cumulative offset of the      *)
(* documented MarketConfig layout, which lists funding_premium_weight_bps, *)
(* funding_settlement_interval_slots, funding_premium_dampening_e6 and     *)
(* funding_premium_max_bps_per_slot between funding_max_bps_per_slot and   *)
(* thresh_floor, with every 128-bit field 8-byte aligned; so thresh_floor  *)
(* is read at config offset 192 and last_effective_price_e6 at 344.        *)
(***************************************************************************)
\* the documented layout: <<field, size in bytes>>
MarketConfigLayout ==
  << <<"collateral_mint", 32>>, <<"vault_pubkey", 32>>, <<"index_feed_id", 32>>,
     <<"max_staleness_secs", 8>>, <<"conf_filter_bps", 2>>, <<"bump", 1>>,
     <<"invert", 1>>, <<"unit_scale", 4>>, <<"funding_horizon_slots", 8>>,
     <<"funding_k_bps", 8>>, <<"funding_inv_scale_notional_e6", 16>>,
     <<"funding_max_premium_bps", 8>>, <<"funding_max_bps_per_slot", 8>>,
     <<"funding_premium_weight_bps", 8>>, <<"funding_settlement_interval_slots", 8>>,
     <<"funding_premium_dampening_e6", 8>>, <<"funding_premium_max_bps_per_slot", 8>>,
     <<"thresh_floor", 16>>, <<"thresh_risk_bps", 8>>,
     <<"thresh_update_interval_slots", 8>>, <<"thresh_step_bps", 8>>,
     <<"thresh_alpha_bps", 8>>, <<"thresh_min", 16>>, <<"thresh_max", 16>>,
     <<"thresh_min_step", 16>>, <<"oracle_authority", 32>>,
     <<"authority_price_e6", 8>>, <<"authority_timestamp", 8>>,
     <<"oracle_price_cap_e2bps", 8>>, <<"last_effective_price_e6", 8>> >>

\* cumulative offset of entry i: the sizes of the entries before it
RECURSIVE LayoutOff(_)
LayoutOff(i) == IF i = 1 THEN 0 ELSE LayoutOff(i - 1) + MarketConfigLayout[i - 1][2]

DocumentedOff(name) ==
  LayoutOff(CHOOSE i \in 1..Len(MarketConfigLayout) : MarketConfigLayout[i][1] = name)

\* the documented field each decoded field holds
DecodedFrom ==
  [collateralMint |-> "collateral_mint", vaultPubkey |-> "vault_pubkey",
   indexFeedId |-> "index_feed_id", maxStalenessSlots |-> "max_staleness_secs",
   confFilterBps |-> "conf_filter_bps", vaultAuthorityBump |-> "bump",
   invert |-> "invert", unitScale |-> "unit_scale",
   fundingHorizonSlots |-> "funding_horizon_slots", fundingKBps |-> "funding_k_bps",
   fundingInvScaleNotionalE6 |-> "funding_inv_scale_notional_e6",
   fundingMaxPremiumBps |-> "funding_max_premium_bps",
   fundingMaxBpsPerSlot |-> "funding_max_bps_per_slot",
   threshFloor |-> "thresh_floor", threshRiskBps |-> "thresh_risk_bps",
   threshUpdateIntervalSlots |-> "thresh_update_interval_slots",
   threshStepBps |-> "thresh_step_bps", threshAlphaBps |-> "thresh_alpha_bps",
   threshMin |-> "thresh_min", threshMax |-> "thresh_max",
   threshMinStep |-> "thresh_min_step", oracleAuthority |-> "oracle_authority",
   authorityPriceE6 |-> "authority_price_e6",
   authorityTimestamp |-> "authority_timestamp",
   oraclePriceCapE2bps |-> "oracle_price_cap_e2bps",
   lastEffectivePriceE6 |-> "last_effective_price_e6"]

C20_ConfigAtDocumentedOffsets ==
  /\ DocumentedOff("thresh_floor") = 192
  /\ DocumentedOff("last_effective_price_e6") = 344
  /\ \A i \in 1..Len(MarketConfigLayout) :
       MarketConfigLayout[i][2] = 16 => LayoutOff(i) % 8 = 0
  /\ (call.op = "parseConfig" /\ call.out.status = "ok") =>
       \A f \in Range(ConfigFields) :
         call.out.value[f[1]] =
           ReadKind(data, CONFIG_OFFSET + DocumentedOff(DecodedFrom[f[1]]), f[2])

(***************************************************************************)
(* C21: a buffer whose length is the general-formula total for any         *)
(* capacity C >= 1, not only a known tier (for example 128, 512 or 2048    *)
(* slots), resolves to a descriptor with capacity C.                       *)
(***************************************************************************)
FormulaCaps == {1, 64, 128, 256, 512, 1024, 2048, 4096}

C21_AnyCapacityResolves ==
  call.op = "detectLayout" =>
    \A c \in FormulaCaps :
      data.len = RefTotalLen(c) => ~call.out.isNull /\ call.out.maxAccounts = c

(***************************************************************************)
(* C22: for a header with valid magic, parseHeader reports resolved =      *)
(* bit 0 and paused = bit 1 of the flag byte at offset 13, each            *)
(* independent of the other and of the remaining six bits; a zero flag     *)
(* byte gives resolved = false and paused = false.                         *)
(***************************************************************************)
FlagByte(d) == ByteAt(d, 13)

C22_FlagBits ==
  (call.op = "parseHeader" /\ call.out.status = "ok") =>
    /\ call.out.value.resolved <=> FlagByte(data) % 2 = 1
    /\ call.out.value.paused <=> (FlagByte(data) \div 2) % 2 = 1
    /\ FlagByte(data) = 0 => ~call.out.value.resolved /\ ~call.out.value.paused

\* all six other bits and paused set, resolved clear
C22_Witness ==
  /\ call.op = "parseHeader"
  /\ call.out.status = "ok"
  /\ FlagByte(data) = 254
  /\ ~call.out.value.resolved
  /\ call.out.value.paused

(***************************************************************************)
(* C23: the header record returned by parseHeader contains both identities *)
(* of the header region: admin equal to bytes [16, 48) and pending-admin   *)
(* equal to bytes [48, 80) of the buffer.                                  *)
(***************************************************************************)
C23_HeaderIdentities ==
  (call.op = "parseHeader" /\ call.out.status = "ok") =>
    /\ call.out.value.admin = Bytes(data, 16, 32)
    /\ "pendingAdmin" \in DOMAIN call.out.value
    /\ call.out.value.pendingAdmin = Bytes(data, 48, 32)
    /\ <<48, 32>> \in call.out.reads

(***************************************************************************)
(* discoverMarkets (discovery.ts): one run of the asynchronous function    *)
(* against a program's accounts.  In this specification data is the set of *)
(* accounts the program owns, each an id and its bytes, and call is the    *)
(* state of the run: where it waits, how each tier query settled, the      *)
(* fallback queries it has issued and the markets it returned.  A market   *)
(* is kept as the account id and the capacity it was decoded with.         *)
(***************************************************************************)
\* Object.values(SLAB_TIERS) keeps the order small, medium, large
TierOrder == <<"small", "medium", "large">>

ChainAccounts ==
  {[id |-> 1, buf |-> Buf(SLAB_TIERS.small.dataSize, MockEngine(256))],
   [id |-> 2, buf |-> Buf(SLAB_TIERS.medium.dataSize, MockHeader(MagicBytes))],
   [id |-> 3, buf |-> Buf(SLAB_TIERS.large.dataSize, MockEngine(4096))],
   [id |-> 4, buf |-> Buf(SLAB_TIERS.small.dataSize, EmptyMap)],
   [id |-> 5, buf |-> Buf(slabDataSize(128), MockHeader(MagicBytes))],
   [id |-> 6, buf |-> Buf(HEADER_LEN, MockHeader(MagicBytes))]}

AccountOf(id) == CHOOSE a \in data : a.id = id

\* the entries of a query result, each tagged with a capacity
Entries(ids, maxAccounts) ==
  [k \in 1..Cardinality(ids) |-> [id |-> Ascending(ids)[k], maxAccounts |-> maxAccounts]]

\* getProgramAccounts with filters: [{ dataSize: tier.dataSize }]
TierQuery(tier) ==
  Entries({a.id : a \in {b \in data : b.buf.len = SLAB_TIERS[tier].dataSize}},
          SLAB_TIERS[tier].maxAccounts)

\* getProgramAccounts with the memcmp filter on the magic at offset 0,
\* mapped to maxAccounts: 4096
MemcmpQuery ==
  Entries({a.id : a \in {b \in data : b.buf.len >= 8 /\ Bytes(b.buf, 0, 8) = MagicBytes}},
          4096)

\* the fulfilled tier results pushed to rawAccounts, in tier order
Collected(tiers) ==
  LET got(t) == IF tiers[t] = "fulfilled" THEN TierQuery(t) ELSE <<>>
  IN  got(TierOrder[1]) \o got(TierOrder[2]) \o got(TierOrder[3])

\* the magic loop over data[i] !== MAGIC_BYTES[i]
MagicValid(d) == d.len >= 8 /\ Bytes(d, 0, 8) = MagicBytes

\* the try block of the decode loop: any parser that throws skips the account
Parses(d, maxAccounts) ==
  /\ parseHeader(d).status = "ok"
  /\ parseConfig(d).status = "ok"
  /\ parseEngineLight(d, maxAccounts).status = "ok"
  /\ parseParams(d).status = "ok"

\* the loop over accounts that builds markets
DecodeAccounts(raw) ==
  SelectSeq(raw, LAMBDA e :
    LET d == dataSlice(AccountOf(e.id).buf, HEADER_SLICE_LENGTH)
    IN  MagicValid(d) /\ Parses(d, e.maxAccounts))

AllPending == [t \in DOMAIN SLAB_TIERS |-> "pending"]

\* what was true when a fallback query was issued: the accounts collected,
\* whether a tier query was rejected, and what the catch block caught
\* ("none" when the query is issued inside the try block)
Issue(collected, hadRejection, caught) ==
  [collected |-> collected, hadRejection |-> hadRejection, caught |-> caught]

InitDiscover ==
  /\ data \in SUBSET ChainAccounts
  /\ call = [pc |-> "idle", tiers |-> AllPending, fallbacks |-> <<>>, markets |-> <<>>]

\* the call starts: the three tier queries are issued, or issuing them
\* throws and the catch block issues the fallback query
DiscoverStart ==
  /\ call.pc = "idle"
  /\ \/ call' = [call EXCEPT !.pc = "await_tiers"]
     \/ call' = [call EXCEPT !.pc = "await_catch_fallback",
                             !.fallbacks = Append(@, Issue(0, FALSE, "tier_queries"))]
  /\ UNCHANGED data

\* one tier query is fulfilled or rejected
TierQuerySettles ==
  \E t \in DOMAIN SLAB_TIERS, outcome \in {"fulfilled", "rejected"} :
    /\ call.pc = "await_tiers"
    /\ call.tiers[t] = "pending"
    /\ call' = [call EXCEPT !.tiers[t] = outcome]
    /\ UNCHANGED data

\* Promise.allSettled resolves: the results are collected, and the run goes
\* on to the fallback query or to decoding
TiersSettled ==
  /\ call.pc = "await_tiers"
  /\ \A t \in DOMAIN SLAB_TIERS : call.tiers[t] # "pending"
  /\ LET rawAccounts == Collected(call.tiers)
         hadRejection == \E t \in DOMAIN SLAB_TIERS : call.tiers[t] = "rejected"
     IN  IF hadRejection /\ Len(rawAccounts) = 0
         THEN call' = [call EXCEPT !.pc = "await_try_fallback",
                                   !.fallbacks = Append(@, Issue(Len(rawAccounts), hadRejection, "none"))]
         ELSE call' = [call EXCEPT !.pc = "done", !.markets = DecodeAccounts(rawAccounts)]
  /\ UNCHANGED data

\* the fallback query issued inside the try block settles: its accounts are
\* decoded, or its rejection is caught and the catch block issues the query
TryFallbackSettles ==
  /\ call.pc = "await_try_fallback"
  /\ \/ call' = [call EXCEPT !.pc = "done", !.markets = DecodeAccounts(MemcmpQuery)]
     \/ call' = [call EXCEPT !.pc = "await_catch_fallback",
                             !.fallbacks = Append(@, Issue(0, TRUE, "fallback"))]
  /\ UNCHANGED data

\* the fallback query issued in the catch block settles: its accounts are
\* decoded, or the call rejects
CatchFallbackSettles ==
  /\ call.pc = "await_catch_fallback"
  /\ \/ call' = [call EXCEPT !.pc = "done", !.markets = DecodeAccounts(MemcmpQuery)]
     \/ call' = [call EXCEPT !.pc = "rejected"]
  /\ UNCHANGED data

NextDiscover ==
  \/ DiscoverStart
  \/ TierQuerySettles
  \/ TiersSettled
  \/ TryFallbackSettles
  \/ CatchFallbackSettles

SpecDiscover == InitDiscover /\ [][NextDiscover]_vars

(***************************************************************************)
(* C24: discoverMarkets returns every slab account of the program that has *)
(* a known tier size, valid magic and parseable data, for all three tiers; *)
(* also when one tier's query is rejected while another tier's query       *)
(* returns accounts, the markets of the rejected tier are still            *)
(* discovered rather than silently left out.                               *)
(***************************************************************************)
Discoverable ==
  {a \in data :
     \E t \in DOMAIN SLAB_TIERS :
       /\ a.buf.len = SLAB_TIERS[t].dataSize
       /\ MagicValid(a.buf)
       /\ Parses(dataSlice(a.buf, HEADER_SLICE_LENGTH), SLAB_TIERS[t].maxAccounts)}

C24_EveryTierDiscovered ==
  call.pc = "done" =>
    \A a \in Discoverable : \E k \in 1..Len(call.markets) : call.markets[k].id = a.id

(***************************************************************************)
(* C28: within one discoverMarkets call the memcmp fallback query is       *)
(* issued at most once, and only when no account was collected from the    *)
(* tier queries and at least one tier query was rejected (or issuing the   *)
(* tier queries threw); when it is issued, every account it returns is     *)
(* decoded with capacity 4096.                                             *)
(***************************************************************************)
C28_FallbackAtMostOnce ==
  /\ Len(call.fallbacks) <= 1
  /\ \A k \in 1..Len(call.fallbacks) :
       \/ call.fallbacks[k].caught = "tier_queries"
       \/ /\ call.fallbacks[k].caught = "none"
          /\ call.fallbacks[k].collected = 0
          /\ call.fallbacks[k].hadRejection
  /\ (call.pc = "done" /\ Len(call.fallbacks) > 0) =>
       \A k \in 1..Len(call.markets) : call.markets[k].maxAccounts = 4096

(***************************************************************************)
(* The price router (src/oracle/price-router.ts).  resolvePrice starts the *)
(* DexScreener and the Jupiter lookup in parallel, awaits both, adds the   *)
(* Pyth entry of a listed mint and sorts the sources by confidence.        *)
(*                                                                         *)
(* In SpecRouter, data is what the outside world answers: the mint asked   *)
(* for and the outcome of each HTTP request.  call is the position of one  *)
(* resolvePrice call.  A number produced by parseFloat is [nan, v]; prices *)
(* are counted in cents.                                                   *)
(***************************************************************************)
NaN == [nan |-> TRUE, v |-> 0]

Float(v) == [nan |-> FALSE, v |-> v]

\* x || 0 on a number: NaN and 0 are falsy
OrZero(x) == IF x.nan \/ x.v = 0 THEN 0 ELSE x.v

\* stands for the liquidity of a Pyth source, above every pool's liquidity
Infinity == 2147483647

SOL_MINT == "So11111111111111111111111111111111111111112"

SOL_FEED == "ef0d8b6fda2ceba41da15d4095d1da392a0d2f8ed0c6c7bc0f4cfac8c280b56d"

\* the reverse lookup mint -> feed, restricted to the SOL entry
MINT_TO_PYTH_FEED == [m \in {SOL_MINT} |-> [feedId |-> SOL_FEED, symbol |-> "SOL"]]

SUPPORTED_DEX_IDS == {"pumpswap", "raydium", "meteora"}

ToLowerCase(s) ==
  CASE s = "Meteora" -> "meteora"
    [] s = "RAYDIUM" -> "raydium"
    [] OTHER -> s

\* s.slice(0, n)
Slice0(s, n) == SubSeq(s, 1, IF Len(s) < n THEN Len(s) ELSE n)

\* x placed into t, which is in non-increasing order of key, behind every
\* element whose key is not below x's
InsertDesc(x, t, key) ==
  LET k == Cardinality({i \in 1..Len(t) : t[i][key] >= x[key]})
  IN  SubSeq(t, 1, k) \o <<x>> \o SubSeq(t, k + 1, Len(t))

RECURSIVE SortDescFrom(_, _, _)
SortDescFrom(s, key, n) ==
  IF n = 0 THEN <<>> ELSE InsertDesc(s[n], SortDescFrom(s, key, n - 1), key)

SortDescKeepsOrder(s, key) == s

\* s.sort((a, b) => b[key] - a[key]): non-increasing in key, ties in their
\* original order
SortDesc(s, key) == SortDescFrom(s, key, Len(s))

DexConfidence(liquidity) ==
  IF liquidity > 1000000 THEN 90
  ELSE IF liquidity > 100000 THEN 75
  ELSE IF liquidity > 10000 THEN 60
  ELSE IF liquidity > 1000 THEN 45
  ELSE 30

DexSourceOf(pair) ==
  [type |-> "dex", address |-> pair.pairAddress, dexId |-> ToLowerCase(pair.dexId),
   pairLabel |-> <<pair.baseSymbol, pair.quoteSymbol>>,
   liquidity |-> pair.liquidityUsd, price |-> OrZero(pair.priceUsd),
   confidence |-> DexConfidence(pair.liquidityUsd)]

DexKept(pair) ==
  /\ pair.chainId = "solana"
  /\ ToLowerCase(pair.dexId) \in SUPPORTED_DEX_IDS
  /\ ~(pair.liquidityUsd < 100)

RECURSIVE DexSourcesFrom(_, _)
DexSourcesFrom(pairs, n) ==
  IF n = 0 THEN <<>>
  ELSE DexSourcesFrom(pairs, n - 1) \o
       (IF DexKept(pairs[n]) THEN <<DexSourceOf(pairs[n])>> ELSE <<>>)

\* the promise fetchDexSources returns: every failure is caught
fetchDexSources(outcome) ==
  IF outcome.kind # "json" THEN [status |-> "fulfilled", value |-> <<>>]
  ELSE LET pairs   == IF outcome.hasPairs THEN outcome.pairs ELSE <<>>
           sources == DexSourcesFrom(pairs, Len(pairs))
       IN  [status |-> "fulfilled",
            value |-> Slice0(SortDesc(sources, "liquidity"), 10)]

lookupPythSource(mint) ==
  IF mint \notin DOMAIN MINT_TO_PYTH_FEED THEN <<>>
  ELSE <<[type |-> "pyth", address |-> MINT_TO_PYTH_FEED[mint].feedId,
          dexId |-> "", pairLabel |-> <<MINT_TO_PYTH_FEED[mint].symbol, "USD (Pyth)">>,
          liquidity |-> Infinity, price |-> 0, confidence |-> 95]>>

\* the promise fetchJupiterSource returns; value is <<>> for null
fetchJupiterSource(mint, outcome) ==
  IF outcome.kind # "json" \/ ~outcome.hasData \/ OrZero(outcome.price) = 0
  THEN [status |-> "fulfilled", value |-> <<>>]
  ELSE [status |-> "fulfilled",
        value |-> <<[type |-> "jupiter", address |-> mint, dexId |-> "",
                     pairLabel |-> <<outcome.mintSymbol, "USD (Jupiter)">>,
                     liquidity |-> 0, price |-> OrZero(outcome.price),
                     confidence |-> 40]>>]

NullSource == [isNull |-> TRUE]

\* the body of resolvePrice after both lookups are in
RouterResult(mint, dexSources, jupiterSource) ==
  LET pythSource == lookupPythSource(mint)
      refPrice   == IF dexSources # <<>> /\ dexSources[1].price # 0
                    THEN dexSources[1].price
                    ELSE IF jupiterSource # <<>> THEN jupiterSource[1].price ELSE 0
      pyth       == IF pythSource = <<>> THEN <<>>
                    ELSE <<[pythSource[1] EXCEPT !.price = refPrice]>>
      allSources == SortDesc(pyth \o dexSources \o jupiterSource, "confidence")
  IN  [mint |-> mint,
       bestSource |-> IF allSources # <<>> THEN allSources[1] ELSE NullSource,
       allSources |-> allSources]

\* ---- the outcomes explored ----
Pair(chainId, dexId, liquidityUsd, priceUsd) ==
  [chainId |-> chainId, dexId |-> dexId, pairAddress |-> <<dexId, liquidityUsd>>,
   liquidityUsd |-> liquidityUsd, priceUsd |-> priceUsd,
   baseSymbol |-> "SOL", quoteSymbol |-> "USDC"]

Liquidities == {0, 50, 500, 5000, 50000, 500000, 5000000}

DexPairs ==
  {Pair("solana", dexId, l, Float(15000)) :
     dexId \in {"raydium", "Meteora", "orca"}, l \in Liquidities}
  \cup {Pair("ethereum", "raydium", 5000000, Float(15000)),
        Pair("solana", "raydium", 5000, NaN)}

MaxPairs == 2

\* more pairs than fetchDexSources keeps, in increasing order of liquidity
ManyPairs == [i \in 1..12 |-> Pair("solana", "raydium", 1000 * i, Float(15000))]

PairLists ==
  UNION {[1..n -> DexPairs] : n \in 0..MaxPairs} \cup {ManyPairs}

DexOutcomes ==
  {[kind |-> "fetch_rejects"], [kind |-> "json_rejects"],
   [kind |-> "json", hasPairs |-> FALSE, pairs |-> <<>>]}
  \cup {[kind |-> "json", hasPairs |-> TRUE, pairs |-> p] : p \in PairLists}

JupiterOutcomes ==
  {[kind |-> "fetch_rejects"], [kind |-> "json_rejects"],
   [kind |-> "json", hasData |-> FALSE, price |-> NaN, mintSymbol |-> "?"]}
  \cup {[kind |-> "json", hasData |-> TRUE, price |-> p, mintSymbol |-> "SOL"] :
          p \in {NaN, Float(0), Float(5), Float(15000)}}

Mints == {SOL_MINT, "NoDataMint11111111111111111111111111111111111"}

Unsettled == [status |-> "pending", value |-> <<>>]

InitRouter ==
  /\ data \in [mint : Mints, dex : DexOutcomes, jupiter : JupiterOutcomes]
  /\ call = [pc |-> "idle", dexSources |-> Unsettled, jupiterSource |-> Unsettled,
             result |-> RouterResult("", <<>>, <<>>)]

\* resolvePrice is called: both lookups are started
ResolveStart ==
  /\ call.pc = "idle"
  /\ call' = [call EXCEPT !.pc = "await_all"]
  /\ UNCHANGED data

DexFetchSettles ==
  /\ call.pc = "await_all"
  /\ call.dexSources.status = "pending"
  /\ call' = [call EXCEPT !.dexSources = fetchDexSources(data.dex)]
  /\ UNCHANGED data

JupiterFetchSettles ==
  /\ call.pc = "await_all"
  /\ call.jupiterSource.status = "pending"
  /\ call' = [call EXCEPT !.jupiterSource = fetchJupiterSource(data.mint, data.jupiter)]
  /\ UNCHANGED data

\* Promise.all settles: rejected if a lookup was rejected, else the rest of
\* resolvePrice runs
ResolveSettles ==
  /\ call.pc = "await_all"
  /\ "pending" \notin {call.dexSources.status, call.jupiterSource.status}
  /\ call' = IF "rejected" \in {call.dexSources.status, call.jupiterSource.status}
             THEN [call EXCEPT !.pc = "rejected"]
             ELSE [call EXCEPT
                     !.pc = "resolved",
                     !.result = RouterResult(data.mint, call.dexSources.value,
                                             call.jupiterSource.value)]
  /\ UNCHANGED data

NextRouter ==
  \/ ResolveStart
  \/ DexFetchSettles
  \/ JupiterFetchSettles
  \/ ResolveSettles

SpecRouter == InitRouter /\ [][NextRouter]_vars

BitmapBit(d, i) == (ByteAt(d, 600 + 576 + i \div 8) \div 2 ^ (i % 8)) % 2

SetBitsBelow(d, capacity) == {i \in 0..(capacity - 1) : BitmapBit(d, i) = 1}

IsAllAccountsCall == call.op = "parseAllAccounts" /\ HasCap(data.len)

CmpWithExactClmm(price, s, e) ==
  BCmp(BMul(BMul(price, Pow2(128)), Pow10(IF e < 0 THEN 0 - e ELSE 0)),
       BMul(BMul(s, s), Pow10(IF e < 0 THEN 0 ELSE e)))

IsClmmPriceCall == call.op = "computeRaydiumClmmPriceE6" /\ data.len >= 269

C29_ClmmPriceNotAboveExact ==
  IsClmmPriceCall =>
    /\ call.out.status = "ok"
    /\ CmpWithExactClmm(call.out.value, Norm(Bytes(data, 253, 16)),
                        6 + ByteAt(data, 233) - ByteAt(data, 234)) <= 0

\* decimals 0 and 18, so that the exponent 6 + d0 - d1 is -12, with a
\* nonzero price strictly below the exact value
C29_Witness ==
  /\ IsClmmPriceCall
  /\ ByteAt(data, 233) = 0
  /\ ByteAt(data, 234) = 18
  /\ call.out.status = "ok"
  /\ call.out.value # <<>>
  /\ CmpWithExactClmm(call.out.value, Norm(Bytes(data, 253, 16)), -12) < 0

(***************************************************************************)
(* C30: for a nonzero bin step the accumulator and the base of the Meteora *)
(* exponentiation never drop below 10^18 at any iteration, so the price is *)
(* at least 1,000,000 for an index >= 0 and at most 1,000,000 for a        *)
(* negative index, and the zero-result guard of the negative branch is     *)
(* never taken.                                                            *)
(***************************************************************************)
\* result and b after the first k passes of the loop of
\* computeMeteoraDlmmPriceE6 on pool d
MeteoraAfter(d, k) ==
  MeteoraLoop([status |-> "ok", result |-> Known(SCALE),
               b |-> Known(BAdd(SCALE, BDiv(BMulSmall(SCALE, BinStepOf(d)), BFromInt(10000))))],
              ActiveIdAbs(d), BitLen(ActiveIdAbs(d)), 0, k - 1)

\* x >= 10^18; a bigint carried as a bit-length interval has more than
\* 8 * MaxExactBytes bits
AtLeastSCALE(x) == IF x.known THEN BCmp(x.v, SCALE) >= 0 ELSE x.minBits > 60

IsMeteoraLoopCall ==
  /\ call.op = "computeMeteoraDlmmPriceE6"
  /\ data.len >= 145
  /\ BinStepOf(data) # 0

\* st is the state before pass i: it and every later state of the loop on
\* pool d keep result and b at 10^18 or above, and the loop does not leave
\* the zero that the guard of the negative branch tests for
RECURSIVE AtLeastSCALEFrom(_, _, _)
AtLeastSCALEFrom(st, d, i) ==
  \/ st.status # "ok"
  \/ /\ AtLeastSCALE(st.result)
     /\ AtLeastSCALE(st.b)
     /\ IF i < BitLen(ActiveIdAbs(d))
        THEN AtLeastSCALEFrom(
               MeteoraLoopStep(st, ActiveIdAbs(d), BitLen(ActiveIdAbs(d)), i), d, i + 1)
        ELSE ActiveIdNeg(d) => st.result # Known(<<>>)

C30_AccumulatorAtLeastOne ==
  IsMeteoraLoopCall =>
    /\ AtLeastSCALEFrom(MeteoraAfter(data, 0), data, 0)
    /\ (call.out.status = "ok" /\ ~ActiveIdNeg(data)) =>
         BCmp(call.out.value, BFromInt(1000000)) >= 0
    /\ (call.out.status = "ok_large" /\ ~ActiveIdNeg(data)) => call.out.minBits > 20
    /\ ActiveIdNeg(data) =>
         /\ call.out.status # "ok_large"
         /\ call.out.status = "ok" => BCmp(call.out.value, BFromInt(1000000)) <= 0

\* bin step 1 at index -10000: fourteen passes, the accumulator ends above
\* 10^18 and the price is 367,897
C30_Witness ==
  /\ IsMeteoraLoopCall
  /\ ActiveIdNeg(data)
  /\ BinStepOf(data) = 1
  /\ ActiveIdAbs(data) = BFromInt(10000)
  /\ MeteoraAfter(data, 14).status = "ok"
  /\ BCmp(MeteoraAfter(data, 14).result.v, SCALE) > 0
  /\ call.out.status = "ok"
  /\ call.out.value = BFromInt(367897)

====
